---- MODULE Spec2Model ----
(***************************************************************************)
(* A model of src/main.py: the Northwind database assistant.               *)
(*                                                                         *)
(* Text is modelled as a sequence of one-character strings, so that the    *)
(* regular expressions and substring tests of the source are computed on   *)
(* characters, as the source computes them.                                *)
(***************************************************************************)
EXTENDS Integers, Sequences, FiniteSets, TLC

VARIABLES
    fn, arg, ret,         \* a pure function under test: its name, input, result
    op, op_pc,            \* the running DatabaseManager operation and its position
    query,                \* execute_query: its argument
    force_refresh,        \* get_schema_info: its argument
    pending,              \* the value a return statement inside the with-body carries
    exc,                  \* the exception in flight
    result,               \* what the operation returned, or the exception it raised
    gc_pc,                \* get_connection generator: none, loop, yielded, ended
    attempt, conn,        \* get_connection locals (conn: index into conns, 0 = None)
    conns,                \* the connections pyodbc.connect returned during the call
    connect_calls,        \* number of pyodbc.connect calls during the call
    yields,               \* number of times the generator yielded during the call
    sleeps,               \* the arguments of time.sleep during the call
    config_ok,            \* DB_SERVER and DB_NAME are set
    cache_file,           \* schema_cache.json
    db_schema,            \* the database's current metadata
    schema_data,          \* get_schema_info locals: the rows of the two queries
    calls,                \* number of operations started
    last_schema,          \* history: the outcome of the latest get_schema_info(False)
    gs_pc,                \* generate_sql: its position
    gs_attempt,           \* generate_sql: the loop variable attempt
    response,             \* generate_sql: the model's output of this attempt
    gs_result,            \* what generate_sql returned
    gs_sleeps,            \* the arguments of time.sleep during generate_sql
    model_calls,          \* number of ollama.generate calls during generate_sql
    gs_calls,             \* number of generate_sql calls started
    clock,                \* time.time()
    user_requests,        \* RateLimiter.user_requests
    lock,                 \* RateLimiter.lock is held
    rl_pc,                \* check_rate_limit: its position
    rl_user, now,         \* check_rate_limit locals: user_id, now
    rl_result,            \* what check_rate_limit returned
    rl_calls,             \* number of check_rate_limit calls started
    rl_allowed,           \* history: per caller, the times of its allowed calls
    rl_denied,            \* history: per caller, the times of its denied calls
    sent,                 \* the messages sent to the chat
    hm_pc,                \* handle_message: its position
    user_message,         \* handle_message: user_message
    hm_calls,             \* number of handle_message calls started
    hm_steps,             \* history: the calls handle_message made for this message
    rd_result,            \* what a concurrent get_schema_info(False) got from the file
    waiting               \* concurrent check_rate_limit calls that wait for the lock

pureVars == <<fn, arg, ret>>
gcVars == <<gc_pc, attempt, conn, conns, connect_calls, yields, sleeps>>
opVars == <<op, op_pc, query, force_refresh, pending, exc, result, schema_data, calls,
           last_schema>>
envVars == <<config_ok, cache_file, db_schema>>
dbVars == <<opVars, gcVars, envVars>>
genVars == <<gs_pc, gs_attempt, response, gs_result, gs_sleeps, model_calls, gs_calls>>
rateVars == <<clock, user_requests, lock, rl_pc, rl_user, now, rl_result, rl_calls,
              rl_allowed, rl_denied>>
chatVars == <<sent>>
hmVars == <<hm_pc, user_message, hm_calls, hm_steps>>
concVars == <<rd_result, waiting>>
upVars == <<genVars, rateVars, chatVars, hmVars, concVars>>
vars == <<pureVars, dbVars, upVars>>

(***************************************************************************)
(* Text: python str operations                                             *)
(***************************************************************************)
Chars(str) == [i \in 1..Len(str) |-> SubSeq(str, i, i)]

\* Python's None, where a text may stand
None == <<"None">>

UpperLetters == Chars("ABCDEFGHIJKLMNOPQRSTUVWXYZ")
LowerLetters == Chars("abcdefghijklmnopqrstuvwxyz")
DigitChars == {"0", "1", "2", "3", "4", "5", "6", "7", "8", "9"}
UpperSet == {UpperLetters[i] : i \in 1..Len(UpperLetters)}
LowerSet == {LowerLetters[i] : i \in 1..Len(LowerLetters)}

\* \w of the re module, on ASCII text
IsWordChar(c) == c \in UpperSet \cup LowerSet \cup DigitChars \cup {"_"}
\* \s of the re module, and the characters str.strip() removes
IsSpace(c) == c \in {" ", "\n", "\t", "\r"}

LowerOf ==
    [c \in UpperSet |->
        LowerLetters[CHOOSE i \in 1..Len(UpperLetters) : UpperLetters[i] = c]]
LowerChar(c) == IF c \in UpperSet THEN LowerOf[c] ELSE c

\* str.lower()
Lower(s) == [i \in 1..Len(s) |-> LowerChar(s[i])]

\* s[i:i+len(w)] == w
MatchAt(s, i, w) ==
    /\ i >= 1
    /\ i + Len(w) - 1 <= Len(s)
    /\ \A k \in 1..Len(w) : s[i + k - 1] = w[k]

\* w in s
Contains(s, w) == \E i \in 1..(Len(s) - Len(w) + 1) : MatchAt(s, i, w)

\* s.startswith(w)
StartsWith(s, w) == MatchAt(s, 1, w)

\* s.endswith(w)
EndsWith(s, w) == MatchAt(s, Len(s) - Len(w) + 1, w)

Min(S) == CHOOSE x \in S : \A y \in S : x <= y
Max(S) == CHOOSE x \in S : \A y \in S : x >= y

\* str.strip()
Strip(s) ==
    LET ns == {i \in 1..Len(s) : ~IsSpace(s[i])} IN
    IF ns = {} THEN <<>> ELSE SubSeq(s, Min(ns), Max(ns))

\* the first position at or after i that holds no white space (Len(q) + 1 if
\* white space runs to the end): where \s* started at i stops
SkipSpace(q, i) ==
    LET ns == {k \in i..Len(q) : ~IsSpace(q[k])} IN
    IF i > Len(q) THEN i ELSE IF ns = {} THEN Len(q) + 1 ELSE Min(ns)

\* position of the first occurrence of w in s at or after i, 0 if there is none
FindFrom(s, w, i) ==
    LET ms == {k \in i..(Len(s) - Len(w) + 1) : MatchAt(s, k, w)} IN
    IF ms = {} THEN 0 ELSE Min(ms)
Find(s, w) == FindFrom(s, w, 1)

\* \b of the re module at the gap before position i (1..Len(s)+1)
WordCharAt(s, i) == i >= 1 /\ i <= Len(s) /\ IsWordChar(s[i])
BoundaryAt(s, i) == WordCharAt(s, i - 1) # WordCharAt(s, i)

\* \bw\b matches at position i
WordAt(s, i, w) ==
    /\ MatchAt(s, i, w)
    /\ BoundaryAt(s, i)
    /\ BoundaryAt(s, i + Len(w))

\* positions where \b(w1|w2|...)\b matches, as <<start, end>> pairs
WordMatches(s, ws) ==
    {<<i, i + Len(w) - 1>> : <<i, w>> \in
        {p \in (1..Len(s)) \X ws : WordAt(s, p[1], p[2])}}

\* .* of the re module (no DOTALL) can span s[i..j]: no line break in it
DotStarSpans(s, i, j) == \A k \in i..j : s[k] # "\n"

\* $ of the re module (no MULTILINE) matches at the gap before position i
AtEnd(s, i) == i = Len(s) + 1 \/ (i = Len(s) /\ s[i] = "\n")

RECURSIVE Join(_, _)
\* sep.join(parts)
Join(parts, sep) ==
    IF parts = <<>> THEN <<>>
    ELSE IF Len(parts) = 1 THEN parts[1]
    ELSE parts[1] \o sep \o Join(Tail(parts), sep)

\* str(e).split('\n')[0]
FirstLine(s) ==
    LET i == Find(s, <<"\n">>) IN IF i = 0 THEN s ELSE SubSeq(s, 1, i - 1)

\* s.split('\n')
RECURSIVE SplitLines(_)
SplitLines(s) ==
    LET first == FirstLine(s) IN
    IF Len(first) = Len(s) THEN <<first>>
    ELSE <<first>> \o SplitLines(SubSeq(s, Len(first) + 2, Len(s)))

(***************************************************************************)
(* DatabaseManager._is_query_safe                                          *)
(***************************************************************************)
MutatingWords ==
    {Chars("drop"), Chars("delete"), Chars("truncate"), Chars("alter"),
     Chars("shutdown"), Chars("insert"), Chars("update"), Chars("merge")}

ExecWords ==
    {Chars("exec"), Chars("execute"), Chars("xp_cmdshell"), Chars("sp_")}

\* r'\b(drop|delete|truncate|alter|shutdown|insert|update|merge)\b'
dangerous_mutating(q) == WordMatches(q, MutatingWords) # {}

\* r';.*\b(exec|execute|xp_cmdshell|sp_)\b'
dangerous_stacked(q) ==
    \E i \in 1..Len(q) :
        /\ q[i] = ";"
        /\ \E m \in WordMatches(q, ExecWords) :
              m[1] > i /\ DotStarSpans(q, i + 1, m[1] - 1)

\* r'\bunion\b.*\bselect\b'
dangerous_union(q) ==
    \E u \in WordMatches(q, {Chars("union")}) :
        \E s \in WordMatches(q, {Chars("select")}) :
            s[1] > u[2] /\ DotStarSpans(q, u[2] + 1, s[1] - 1)

\* r'\b1\s*=\s*1\b' matches from position i
OneEqualsOneAt(q, i) ==
    /\ i <= Len(q) /\ q[i] = "1" /\ BoundaryAt(q, i)
    /\ LET e == SkipSpace(q, i + 1) IN
          /\ e <= Len(q) /\ q[e] = "="
          /\ LET o == SkipSpace(q, e + 1) IN
                o <= Len(q) /\ q[o] = "1" /\ BoundaryAt(q, o + 1)

\* r'\bselect\b.*\bfrom\b.*\bwhere\b.*\b1\s*=\s*1\b'
dangerous_tautology(q) ==
    \E s \in WordMatches(q, {Chars("select")}) :
     \E f \in WordMatches(q, {Chars("from")}) :
      /\ f[1] > s[2] /\ DotStarSpans(q, s[2] + 1, f[1] - 1)
      /\ \E w \in WordMatches(q, {Chars("where")}) :
          /\ w[1] > f[2] /\ DotStarSpans(q, f[2] + 1, w[1] - 1)
          /\ \E i \in (w[2] + 1)..Len(q) :
                OneEqualsOneAt(q, i) /\ DotStarSpans(q, w[2] + 1, i - 1)

\* r'/\*.*\*/'
dangerous_block_comment(q) ==
    \E i \in 1..Len(q) :
        /\ MatchAt(q, i, Chars("/*"))
        /\ \E j \in (i + 2)..Len(q) :
              MatchAt(q, j, Chars("*/")) /\ DotStarSpans(q, i + 2, j - 1)

\* r'--.*$'
dangerous_line_comment(q) ==
    \E i \in 1..Len(q) :
        /\ MatchAt(q, i, Chars("--"))
        /\ \E e \in (i + 2)..(Len(q) + 1) :
              AtEnd(q, e) /\ DotStarSpans(q, i + 2, e - 1)

\* r'[\/\\]'
dangerous_slash(q) == \E i \in 1..Len(q) : q[i] \in {"/", "\\"}

_is_query_safe(q) ==
    LET query_lower == Lower(q) IN
    ~ \/ dangerous_mutating(query_lower)
      \/ dangerous_stacked(query_lower)
      \/ dangerous_union(query_lower)
      \/ dangerous_tautology(query_lower)
      \/ dangerous_block_comment(query_lower)
      \/ dangerous_line_comment(query_lower)
      \/ dangerous_slash(query_lower)

(***************************************************************************)
(* OllamaLLM._clean_sql                                                    *)
(***************************************************************************)
MAX_RESULTS == 50

\* str(n) for n >= 0
DigitSeq == Chars("0123456789")
RECURSIVE Str(_)
Str(n) == IF n < 10 THEN <<DigitSeq[n + 1]>> ELSE Str(n \div 10) \o <<DigitSeq[(n % 10) + 1]>>

\* re.sub(w + r'.*$', '', sql, flags=re.DOTALL | re.IGNORECASE), w lower case
CutFrom(s, w) ==
    LET i == Find(Lower(s), w) IN IF i = 0 THEN s ELSE SubSeq(s, 1, i - 1)

\* re.sub(r'/\*.*?\*/', '', sql, flags=re.DOTALL)
RECURSIVE RemoveBlockComments(_)
RemoveBlockComments(s) ==
    LET i == Find(s, Chars("/*"))
        j == IF i = 0 THEN 0 ELSE FindFrom(s, Chars("*/"), i + 2)
    IN IF j = 0 THEN s
       ELSE SubSeq(s, 1, i - 1) \o RemoveBlockComments(SubSeq(s, j + 2, Len(s)))

\* re.sub(r'--.*$', '', sql, flags=re.MULTILINE)
RECURSIVE RemoveLineComments(_)
RemoveLineComments(s) ==
    LET i == Find(s, Chars("--"))
        n == IF i = 0 THEN 0 ELSE FindFrom(s, <<"\n">>, i + 2)
        e == IF n = 0 THEN Len(s) + 1 ELSE n
    IN IF i = 0 THEN s
       ELSE SubSeq(s, 1, i - 1) \o RemoveLineComments(SubSeq(s, e, Len(s)))

\* re.sub(r'[\/\\]', '', sql)
NotSlash(c) == c \notin {"/", "\\"}
RemoveSlashes(s) == SelectSeq(s, NotSlash)

\* re.sub(r'\s+', ' ', sql)
CollapseSpace(s) ==
    LET Kept(i) == ~IsSpace(s[i]) \/ i = 1 \/ ~IsSpace(s[i - 1])
        kept == SelectSeq([i \in 1..Len(s) |-> i], Kept)
    IN [k \in 1..Len(kept) |-> IF IsSpace(s[kept[k]]) THEN " " ELSE s[kept[k]]]

\* re.sub(r'select\s+', f'select top {MAX_RESULTS} ', sql, flags=re.IGNORECASE):
\* every occurrence is replaced
RECURSIVE InjectTop(_)
InjectTop(s) ==
    LET low == Lower(s)
        ms == {k \in 1..(Len(s) - 6) :
                MatchAt(low, k, Chars("select")) /\ IsSpace(s[k + 6])}
    IN IF ms = {} THEN s
       ELSE SubSeq(s, 1, Min(ms) - 1)
            \o Chars("select top ") \o Str(MAX_RESULTS) \o <<" ">>
            \o InjectTop(SubSeq(s, SkipSpace(s, Min(ms) + 6), Len(s)))

\* sql.split(';')[0]
BeforeSemicolon(s) ==
    LET i == Find(s, <<";">>) IN IF i = 0 THEN s ELSE SubSeq(s, 1, i - 1)

\* for line in sql.split('\n'): keep the stripped non-empty lines up to the
\* first that ends with ';'
RECURSIVE KeepLines(_)
KeepLines(lines) ==
    IF lines = <<>> THEN <<>>
    ELSE LET line == Strip(Head(lines)) IN
         IF line = <<>> THEN KeepLines(Tail(lines))
         ELSE IF EndsWith(line, <<";">>) THEN <<line>>
         ELSE <<line>> \o KeepLines(Tail(lines))

\* the marker of a code block: three backquotes
Backquote == Chars("`'")[1]
CodeFence == <<Backquote, Backquote, Backquote>>

_clean_sql(raw) ==
    LET s1 == CutFrom(raw, CodeFence)
        s2 == CutFrom(s1, Chars("[/inst]"))
        s3 == CutFrom(s2, Chars("<<sys>>"))
        s4 == RemoveBlockComments(s3)
        s5 == RemoveLineComments(s4)
        s6 == RemoveSlashes(s5)
        s7 == Strip(CollapseSpace(s6))
        s8 == IF Contains(Lower(s7), Chars("select"))
                 /\ ~Contains(Lower(s7), Chars("top "))
              THEN InjectTop(s7) ELSE s7
        s9 == Strip(BeforeSemicolon(s8))
    IN Strip(Join(KeepLines(SplitLines(s9)), <<" ">>))

(***************************************************************************)
(* OllamaLLM._validate_sql                                                 *)
(***************************************************************************)
\* r'join\s+<table>\s+.*=\s*<column>' matches from position i up to an end
\* position; the set of the end positions (the position after the match)
JoinEnds(s, i, table, column) ==
    LET a == SkipSpace(s, i + 4)
        t == a + Len(table)
    IN IF ~(MatchAt(s, i, Chars("join")) /\ a > i + 4 /\ MatchAt(s, a, table))
       THEN {}
       ELSE {SkipSpace(s, e + 1) + Len(column) :
                e \in {e \in (t + 1)..Len(s) :
                        /\ s[e] = "="
                        /\ \E b \in (t + 1)..e :
                              /\ \A k \in t..(b - 1) : IsSpace(s[k])
                              /\ DotStarSpans(s, b, e - 1)
                        /\ MatchAt(s, SkipSpace(s, e + 1), column)}}

InvalidJoin(s, table, column) ==
    \E i \in 1..Len(s) : JoinEnds(s, i, table, column) # {}

\* r'join\s+orders\s+.*=\s*shippers\.shipperid\s+.*!=\s*orders\.shipvia'
InvalidShipperJoin(s) ==
    \E i \in 1..Len(s) :
        \E t \in JoinEnds(s, i, Chars("orders"), Chars("shippers.shipperid")) :
            \E e \in (t + 1)..(Len(s) - 1) :
                /\ MatchAt(s, e, Chars("!="))
                /\ \E b \in (t + 1)..e :
                      /\ \A k \in t..(b - 1) : IsSpace(s[k])
                      /\ DotStarSpans(s, b, e - 1)
                /\ MatchAt(s, SkipSpace(s, e + 2), Chars("orders.shipvia"))

_validate_sql(sql) ==
    LET sql_lower == Lower(sql) IN
    ~ \/ InvalidJoin(sql_lower, Chars("customers"), Chars("employees.employeeid"))
      \/ InvalidJoin(sql_lower, Chars("employees"), Chars("customers.customerid"))
      \/ InvalidJoin(sql_lower, Chars("products"), Chars("employees.employeeid"))
      \/ InvalidJoin(sql_lower, Chars("orders"), Chars("suppliers.supplierid"))
      \/ InvalidShipperJoin(sql_lower)

(***************************************************************************)
(* OllamaLLM.generate_sql: one attempt on one model output                 *)
(***************************************************************************)
\* the validation checks, in order; the message of the ValueError, or "ok"
validate(sql) ==
    LET low == Lower(sql) IN
    IF ~StartsWith(Strip(low), Chars("select"))
    THEN "Generated SQL must start with SELECT"
    ELSE IF Contains(low, Chars("/*")) \/ Contains(low, Chars("--"))
            \/ Contains(low, Chars("/"))
    THEN "SQL contains prohibited characters"
    ELSE IF ~Contains(low, Chars("top")) /\ Contains(low, Chars("limit"))
    THEN "Use TOP instead of LIMIT"
    ELSE IF ~_is_query_safe(sql)
    THEN "Query contains unsafe operations"
    ELSE IF ~_validate_sql(sql)
    THEN "Invalid table relationships in query"
    ELSE "ok"

\* if f"top {MAX_RESULTS}" not in sql.lower(): sql = re.sub(...)
ensure_top(sql) ==
    IF ~Contains(Lower(sql), Chars("top ") \o Str(MAX_RESULTS))
    THEN InjectTop(sql) ELSE sql

\* what one attempt makes of the model's response: the statement it returns,
\* or None when a check raises
attempt_result(raw) ==
    LET sql == _clean_sql(raw) IN
    IF validate(sql) = "ok" THEN ensure_top(sql) ELSE None

(***************************************************************************)
(* Values                                                                  *)
(***************************************************************************)
MAX_SQL_ATTEMPTS == 3

\* what an operation has returned or raised so far
NoResult == [kind |-> "none", value |-> <<>>, error |-> None]
Returned(v, e) == [kind |-> "return", value |-> v, error |-> e]
Raised(e) == [kind |-> "raise", value |-> <<>>, error |-> Chars(e)]

\* a pyodbc connection as connect() returns it
NewConn ==
    [open |-> TRUE, commits |-> 0, rollbacks |-> 0, closes |-> 0,
     executed |-> <<>>]

(***************************************************************************)
(* The database as the driver shows it                                     *)
(***************************************************************************)
\* texts of pyodbc.Error the driver raises from cursor.execute
DriverErrors ==
    {"[42S02] Invalid object name 'Custs'.\n(208) SQLExecDirectW",
     "[42S22] Invalid column name 'Nam'.\n(207) SQLExecDirectW",
     "[08S01] Communication link failure"}

\* INFORMATION_SCHEMA rows of the two introspection queries, for each state
\* of the database's metadata
NumSchemas == 2
SchemaRows(v) ==
    << [TABLE_SCHEMA |-> "dbo", TABLE_NAME |-> "Customers",
        COLUMN_NAME |-> "CustomerID", DATA_TYPE |-> "nchar", IS_NULLABLE |-> "NO"],
       [TABLE_SCHEMA |-> "dbo", TABLE_NAME |-> "Customers",
        COLUMN_NAME |-> "Country", DATA_TYPE |-> "nvarchar", IS_NULLABLE |-> "YES"] >>
    \o IF v = 1 THEN <<>>
       ELSE << [TABLE_SCHEMA |-> "dbo", TABLE_NAME |-> "Orders",
                COLUMN_NAME |-> "CustomerID", DATA_TYPE |-> "nchar",
                IS_NULLABLE |-> "YES"] >>
FkRows(v) ==
    IF v = 1 THEN <<>>
    ELSE << [FK_TABLE |-> "Orders", FK_COLUMN |-> "CustomerID",
             REFERENCED_TABLE |-> "Customers", REFERENCED_COLUMN |-> "CustomerID"] >>

(***************************************************************************)
(* DatabaseManager.get_schema_info: assembling and storing SchemaInfo      *)
(***************************************************************************)
\* a dict is a sequence of <<key, value>> in insertion order
DictHas(d, k) == \E i \in 1..Len(d) : d[i][1] = k
DictSet(d, k, v) ==
    IF DictHas(d, k)
    THEN [i \in 1..Len(d) |-> IF d[i][1] = k THEN <<k, v>> ELSE d[i]]
    ELSE Append(d, <<k, v>>)
DictGet(d, k) == d[CHOOSE i \in 1..Len(d) : d[i][1] = k][2]

\* for row in schema_data: ... (tables and columns)
RECURSIVE ProcessTables(_, _)
ProcessTables(tables, rows) ==
    IF rows = <<>> THEN tables
    ELSE LET row == Head(rows)
             table_key == row.TABLE_SCHEMA \o "." \o row.TABLE_NAME
             t0 == IF DictHas(tables, table_key) THEN tables
                   ELSE DictSet(tables, table_key,
                                [columns |-> <<>>, primary_keys |-> <<>>])
             old == DictGet(t0, table_key)
             col == [name |-> row.COLUMN_NAME, type |-> row.DATA_TYPE,
                     nullable |-> (row.IS_NULLABLE = "YES")]
         IN ProcessTables(
                DictSet(t0, table_key,
                        [old EXCEPT !.columns = Append(@, col)]),
                Tail(rows))

\* for row in fk_data: ... (relationships)
ProcessRelationships(rows) ==
    [i \in 1..Len(rows) |->
        [from_table |-> rows[i].FK_TABLE, from_column |-> rows[i].FK_COLUMN,
         to_table |-> rows[i].REFERENCED_TABLE,
         to_column |-> rows[i].REFERENCED_COLUMN]]

BuildSchemaInfo(data) ==
    [tables |-> ProcessTables(<<>>, data[1]),
     relationships |-> ProcessRelationships(data[2])]

\* json.dump(schema_info, f, indent=2): the document as the chunks written
RECURSIVE DumpColumns(_)
DumpColumns(cols) ==
    IF cols = <<>> THEN <<>>
    ELSE <<"{name: " \o Head(cols).name \o ", type: " \o Head(cols).type
            \o ", nullable: "
            \o (IF Head(cols).nullable THEN "true" ELSE "false") \o "}">>
         \o DumpColumns(Tail(cols))
RECURSIVE DumpTables(_)
DumpTables(tables) ==
    IF tables = <<>> THEN <<>>
    ELSE <<Head(tables)[1] \o ": {columns: [">>
         \o DumpColumns(Head(tables)[2].columns)
         \o <<"], primary_keys: []}">>
         \o DumpTables(Tail(tables))
RECURSIVE DumpRelationships(_)
DumpRelationships(rels) ==
    IF rels = <<>> THEN <<>>
    ELSE <<"{from_table: " \o Head(rels).from_table
            \o ", from_column: " \o Head(rels).from_column
            \o ", to_table: " \o Head(rels).to_table
            \o ", to_column: " \o Head(rels).to_column \o "}">>
         \o DumpRelationships(Tail(rels))
JsonDump(info) ==
    <<"{tables: {">> \o DumpTables(info.tables)
    \o <<"}, relationships: [">> \o DumpRelationships(info.relationships)
    \o <<"]}">>

\* json.load(f): the document the text denotes; a text that is no complete
\* document raises json.JSONDecodeError. The documents are those the two
\* queries can give rise to; the metadata may change between the queries.
SchemaInfos ==
    {BuildSchemaInfo(<<SchemaRows(v), FkRows(w)>>) :
        v \in 1..NumSchemas, w \in 1..NumSchemas}
JsonValid(text) == \E info \in SchemaInfos : JsonDump(info) = text
JsonLoad(text) == CHOOSE info \in SchemaInfos : JsonDump(info) = text

\* schema_cache.json
NoFile == [exists |-> FALSE, text |-> <<>>]

\* the snapshots an earlier run of the program has left
Snapshots ==
    {[exists |-> TRUE,
      text |-> JsonDump(BuildSchemaInfo(<<SchemaRows(v), FkRows(v)>>))] :
        v \in 1..NumSchemas}

(***************************************************************************)
(* Result rows                                                             *)
(***************************************************************************)
\* the values of a row as the driver returns them: str, int, Decimal with
\* four decimal places (num is the value times 10^4), datetime at midnight
\* (num is yyyymmdd), None for NULL
Text(s) == [kind |-> "str", text |-> s, num |-> 0]
Number(n) == [kind |-> "int", text |-> "", num |-> n]
Decimal(n) == [kind |-> "dec", text |-> "", num |-> n]
Date(n) == [kind |-> "date", text |-> "", num |-> n]
Null == [kind |-> "null", text |-> "", num |-> 0]

\* dict(zip(columns, row))
RECURSIVE ZipDict(_, _)
ZipDict(columns, row) ==
    IF columns = <<>> \/ row = <<>> THEN <<>>
    ELSE LET n == Len(columns) IN
         DictSet(ZipDict(SubSeq(columns, 1, n - 1), SubSeq(row, 1, n - 1)),
                 columns[n], row[n])

\* [dict(zip(columns, row)) for row in cursor.fetchall()]
Results(cur) == [i \in 1..Len(cur.rows) |-> ZipDict(cur.columns, cur.rows[i])]

\* n written with at least width digits
RECURSIVE Pad(_, _)
Pad(n, width) ==
    IF width <= 1 THEN Str(n)
    ELSE Pad(n \div 10, width - 1) \o <<DigitSeq[(n % 10) + 1]>>

RECURSIVE Power10(_)
Power10(k) == IF k = 0 THEN 1 ELSE 10 * Power10(k - 1)

\* f"{x:.<places>f}" for x = num / den >= 0: rounded half to even
Fixed(num, den, places) ==
    LET scale == Power10(places)
        q == (num * scale) \div den
        r == (num * scale) % den
        up == IF 2 * r > den \/ (2 * r = den /\ q % 2 = 1) THEN 1 ELSE 0
    IN Str((q + up) \div scale) \o <<".">> \o Pad((q + up) % scale, places)

\* strftime('%Y-%m-%d')
FormatDate(n) ==
    Pad(n \div 10000, 4) \o <<"-">> \o Pad((n \div 100) % 100, 2)
        \o <<"-">> \o Pad(n % 100, 2)

\* str(v)
PyStr(v) ==
    CASE v.kind = "str" -> Chars(v.text)
      [] v.kind = "int" -> Str(v.num)
      [] v.kind = "dec" -> Str(v.num \div 10000) \o <<".">> \o Pad(v.num % 10000, 4)
      [] v.kind = "date" -> FormatDate(v.num) \o Chars(" 00:00:00")
      [] OTHER -> None

\* what a cursor holds after cursor.execute(query): the column names of
\* cursor.description and the rows of fetchall()
DriverRowSets ==
    {[columns |-> <<"CompanyName", "ContactName", "Phone">>, rows |-> <<>>],
     [columns |-> <<"CompanyName", "ContactName", "Phone">>,
      rows |-> << <<Text("Alfreds"), Text("Maria"), Text("030-0074321")>> >>],
     [columns |-> <<"ProductName", "UnitPrice">>,
      rows |-> << <<Text("Chai"), Decimal(180000)>>,
                  <<Text("Chang"), Decimal(190000)>> >>],
     [columns |-> <<"OrderID", "CustomerID">>,
      rows |-> << <<Number(10248), Text("VINET")>> >>]}

(***************************************************************************)
(* DatabaseManager.get_connection: a generator under @contextmanager.      *)
(* op_pc tells who is running the generator: "enter" (__enter__ calls      *)
(* next), "exit" (__exit__ calls next after a body that did not raise),    *)
(* "throw" (__exit__ throws the body's exception in at the yield).         *)
(***************************************************************************)
Driven == op_pc \in {"enter", "exit", "throw"}

\* conn.close(), under "if conn:"
CloseConn(cs, c) ==
    IF c = 0 THEN cs ELSE [cs EXCEPT ![c].open = FALSE, ![c].closes = @ + 1]

\* time.sleep(1 + attempt), attempt already incremented
backoff(att) == 1 + att

\* except pyodbc.Error as e: close, attempt += 1, sleep unless it was the last
RetryAfterError(cs) ==
    /\ conns' = CloseConn(cs, conn)
    /\ attempt' = attempt + 1
    /\ sleeps' = IF attempt + 1 < MAX_SQL_ATTEMPTS
                 THEN Append(sleeps, backoff(attempt + 1)) ELSE sleeps
    /\ gc_pc' = "loop"

\* raise ValueError("DB_SERVER and DB_NAME environment variables must be set")
GcConfigError ==
    /\ gc_pc = "loop" /\ Driven /\ attempt < MAX_SQL_ATTEMPTS /\ ~config_ok
    /\ gc_pc' = "ended" /\ exc' = "ValueError" /\ op_pc' = "except"
    /\ UNCHANGED <<attempt, conn, conns, connect_calls, yields, sleeps>>
    /\ UNCHANGED <<op, query, force_refresh, pending, result, schema_data, calls, last_schema>>
    /\ UNCHANGED <<envVars, pureVars, upVars>>

\* pyodbc.connect raises pyodbc.Error
GcConnectError ==
    /\ gc_pc = "loop" /\ Driven /\ attempt < MAX_SQL_ATTEMPTS /\ config_ok
    /\ connect_calls' = connect_calls + 1
    /\ RetryAfterError(conns)
    /\ UNCHANGED <<conn, yields>>
    /\ UNCHANGED <<opVars, envVars, pureVars, upVars>>

\* pyodbc.connect returns a connection, which is yielded. A generator that
\* yields under __exit__ makes __exit__ raise RuntimeError("generator didn't
\* stop"); the generator stays suspended at the yield.
GcConnectOk ==
    /\ gc_pc = "loop" /\ Driven /\ attempt < MAX_SQL_ATTEMPTS /\ config_ok
    /\ connect_calls' = connect_calls + 1
    /\ conns' = Append(conns, NewConn)
    /\ conn' = Len(conns) + 1
    /\ yields' = yields + 1
    /\ gc_pc' = "yielded"
    /\ IF op_pc = "enter"
       THEN op_pc' = "body" /\ exc' = exc
       ELSE op_pc' = "except" /\ exc' = "RuntimeError"
    /\ UNCHANGED <<attempt, sleeps>>
    /\ UNCHANGED <<op, query, force_refresh, pending, result, schema_data, calls, last_schema>>
    /\ UNCHANGED <<envVars, pureVars, upVars>>

\* the while loop ends: raise ConnectionError("Failed to connect to database")
GcExhausted ==
    /\ gc_pc = "loop" /\ Driven /\ attempt >= MAX_SQL_ATTEMPTS
    /\ gc_pc' = "ended" /\ exc' = "ConnectionError" /\ op_pc' = "except"
    /\ UNCHANGED <<attempt, conn, conns, connect_calls, yields, sleeps>>
    /\ UNCHANGED <<op, query, force_refresh, pending, result, schema_data, calls, last_schema>>
    /\ UNCHANGED <<envVars, pureVars, upVars>>

\* after the yield: conn.commit(); return; finally: conn.close(). The with
\* statement ends; a return statement of the body completes (execute_query),
\* or the code after the with statement goes on (get_schema_info).
GcCommit ==
    /\ gc_pc = "yielded" /\ op_pc = "exit"
    /\ conns' = CloseConn([conns EXCEPT ![conn].commits = @ + 1], conn)
    /\ gc_pc' = "ended"
    /\ IF op = "execute_query"
       THEN op_pc' = "returned" /\ result' = pending
       ELSE op_pc' = "build" /\ result' = result
    /\ UNCHANGED <<attempt, conn, connect_calls, yields, sleeps>>
    /\ UNCHANGED <<op, query, force_refresh, pending, exc, schema_data, calls, last_schema>>
    /\ UNCHANGED <<envVars, pureVars, upVars>>

\* conn.commit() raises pyodbc.Error: except Exception: conn.rollback(); raise;
\* finally: conn.close(); then the outer except pyodbc.Error catches it
GcCommitError ==
    /\ gc_pc = "yielded" /\ op_pc = "exit"
    /\ RetryAfterError(CloseConn([conns EXCEPT ![conn].rollbacks = @ + 1], conn))
    /\ UNCHANGED <<conn, connect_calls, yields>>
    /\ UNCHANGED <<opVars, envVars, pureVars, upVars>>

\* the body's pyodbc.Error arrives at the yield: except Exception:
\* conn.rollback(); raise; finally: conn.close(); then the outer
\* except pyodbc.Error catches it
GcThrow ==
    /\ gc_pc = "yielded" /\ op_pc = "throw" /\ exc = "pyodbc.Error"
    /\ RetryAfterError(CloseConn([conns EXCEPT ![conn].rollbacks = @ + 1], conn))
    /\ UNCHANGED <<conn, connect_calls, yields>>
    /\ UNCHANGED <<opVars, envVars, pureVars, upVars>>

\* a suspended generator that is closed or collected: GeneratorExit at the
\* yield passes except Exception; finally: conn.close()
FinalizedConns == IF gc_pc = "yielded" THEN CloseConn(conns, conn) ELSE conns
FinalizedPc == IF gc_pc = "yielded" THEN "ended" ELSE gc_pc

(***************************************************************************)
(* DatabaseManager.execute_query                                           *)
(***************************************************************************)
MaxCalls == 2

\* the queries execute_query is called with
QueryInputs ==
    {"SELECT * FROM Customers", "  select top 50 * from Products ",
     "drop table Customers", "select 1; drop table Customers",
     "Select a from t union select b from u", "selection"}

CanStart == op_pc \in {"idle", "returned", "raised"} /\ gc_pc # "yielded"
                /\ calls < MaxCalls

\* no get_schema_info(force_refresh=False) has ended since the latest forced
\* refresh began
NoSchema == [result |-> NoResult, file |-> NoFile]

\* the state of a call that has just begun; last_schema keeps the outcome of
\* the call that has ended, and the snapshot it left, if that was a
\* get_schema_info(force_refresh=False)
BeginCall ==
    /\ pending' = NoResult /\ exc' = "none" /\ result' = NoResult
    /\ gc_pc' = "none" /\ attempt' = 0 /\ conn' = 0 /\ conns' = <<>>
    /\ connect_calls' = 0 /\ yields' = 0 /\ sleeps' = <<>>
    /\ schema_data' = <<>> /\ calls' = calls + 1
    /\ last_schema' =
        IF op' = "get_schema_info" /\ force_refresh' THEN NoSchema
        ELSE IF op = "get_schema_info" /\ ~force_refresh
                /\ op_pc \in {"returned", "raised"}
        THEN [result |-> result, file |-> cache_file]
        ELSE last_schema

StartExecuteQuery ==
    /\ CanStart
    /\ \E q \in QueryInputs : query' = Chars(q)
    /\ op' = "execute_query" /\ op_pc' = "start" /\ force_refresh' = FALSE
    /\ BeginCall
    /\ UNCHANGED <<envVars, pureVars, upVars>>

\* as execute_query_check, without the call of _is_query_safe
execute_query_check_select_only(q) ==
    IF ~StartsWith(Lower(Strip(q)), Chars("select")) THEN "not_select" ELSE "ok"

\* the two checks before the with statement
execute_query_check(q) ==
    IF ~StartsWith(Lower(Strip(q)), Chars("select")) THEN "not_select"
    ELSE IF ~_is_query_safe(q) THEN "unsafe"
    ELSE "ok"

RejectMessage(check) ==
    IF check = "not_select" THEN Chars("Only SELECT queries are allowed")
    ELSE Chars("Query contains potentially unsafe operations")

EqRejected ==
    /\ op = "execute_query" /\ op_pc = "start"
    /\ execute_query_check(query) # "ok"
    /\ result' = Returned(<<>>, RejectMessage(execute_query_check(query)))
    /\ op_pc' = "returned"
    /\ UNCHANGED <<op, query, force_refresh, pending, exc, schema_data, calls, last_schema>>
    /\ UNCHANGED <<gcVars, envVars, pureVars, upVars>>

\* with DatabaseManager.get_connection() as conn:
EnterWith ==
    /\ op_pc' = "enter" /\ gc_pc' = "loop" /\ attempt' = 0 /\ conn' = 0
    /\ UNCHANGED <<conns, connect_calls, yields, sleeps>>
    /\ UNCHANGED <<op, query, force_refresh, pending, exc, result, schema_data, calls, last_schema>>
    /\ UNCHANGED <<envVars, pureVars, upVars>>

EqWith ==
    /\ op = "execute_query" /\ op_pc = "start"
    /\ execute_query_check(query) = "ok"
    /\ EnterWith

\* cursor.execute(stmt) reaches the driver on connection conn
Executed(stmt, ok) ==
    [conns EXCEPT ![conn].executed = Append(@, [stmt |-> stmt, ok |-> ok])]

\* conn.cursor() raises pyodbc.Error: outside the inner try, it leaves the body
EqCursorError ==
    /\ op = "execute_query" /\ op_pc = "body"
    /\ op_pc' = "throw" /\ exc' = "pyodbc.Error"
    /\ UNCHANGED <<op, query, force_refresh, pending, result, schema_data, calls, last_schema>>
    /\ UNCHANGED <<gcVars, envVars, pureVars, upVars>>

\* cursor.execute(query) succeeds, cursor.description is set: return results, None
EqExecuteRows ==
    /\ op = "execute_query" /\ op_pc = "body"
    /\ conns' = Executed(query, TRUE)
    /\ \E cur \in DriverRowSets : pending' = Returned(Results(cur), None)
    /\ op_pc' = "exit"
    /\ UNCHANGED <<gc_pc, attempt, conn, connect_calls, yields, sleeps>>
    /\ UNCHANGED <<op, query, force_refresh, exc, result, schema_data, calls, last_schema>>
    /\ UNCHANGED <<envVars, pureVars, upVars>>

\* cursor.execute(query) succeeds, no cursor.description
EqExecuteNoDescription ==
    /\ op = "execute_query" /\ op_pc = "body"
    /\ conns' = Executed(query, TRUE)
    /\ pending' = Returned(<<>>, Chars("No results returned"))
    /\ op_pc' = "exit"
    /\ UNCHANGED <<gc_pc, attempt, conn, connect_calls, yields, sleeps>>
    /\ UNCHANGED <<op, query, force_refresh, exc, result, schema_data, calls, last_schema>>
    /\ UNCHANGED <<envVars, pureVars, upVars>>

\* except pyodbc.Error as e: return [], f"SQL error: {error_msg}"
SqlErrorMessage(e) == Chars("SQL error: ") \o FirstLine(e)

\* cursor.execute(query) raises pyodbc.Error, caught inside the with-body
EqExecuteError ==
    /\ op = "execute_query" /\ op_pc = "body"
    /\ conns' = Executed(query, FALSE)
    /\ \E e \in DriverErrors : pending' = Returned(<<>>, SqlErrorMessage(Chars(e)))
    /\ op_pc' = "exit"
    /\ UNCHANGED <<gc_pc, attempt, conn, connect_calls, yields, sleeps>>
    /\ UNCHANGED <<op, query, force_refresh, exc, result, schema_data, calls, last_schema>>
    /\ UNCHANGED <<envVars, pureVars, upVars>>

\* except Exception as e: return [], "Unexpected database error"
UnexpectedResult == Returned(<<>>, Chars("Unexpected database error"))

\* as EqExcept, with a handler that catches nothing
EqExcept_uncaught ==
    /\ op = "execute_query" /\ op_pc = "except"
    /\ result' = Raised(exc)
    /\ op_pc' = "raised"
    /\ conns' = FinalizedConns /\ gc_pc' = FinalizedPc
    /\ UNCHANGED <<attempt, conn, connect_calls, yields, sleeps>>
    /\ UNCHANGED <<op, query, force_refresh, pending, exc, schema_data, calls, last_schema>>
    /\ UNCHANGED <<envVars, pureVars, upVars>>

\* The handler ends and drops the exception, and with it the last reference
\* to a generator left suspended, which is then closed.
EqExcept ==
    /\ op = "execute_query" /\ op_pc = "except"
    /\ result' = UnexpectedResult
    /\ op_pc' = "returned" /\ exc' = "none"
    /\ conns' = FinalizedConns /\ gc_pc' = FinalizedPc
    /\ UNCHANGED <<attempt, conn, connect_calls, yields, sleeps>>
    /\ UNCHANGED <<op, query, force_refresh, pending, schema_data, calls, last_schema>>
    /\ UNCHANGED <<envVars, pureVars, upVars>>

(***************************************************************************)
(* DatabaseManager.get_schema_info                                         *)
(***************************************************************************)
StartSchemaInfo ==
    /\ CanStart
    /\ force_refresh' \in BOOLEAN
    /\ op' = "get_schema_info" /\ op_pc' = "start" /\ query' = <<>>
    /\ BeginCall
    /\ UNCHANGED <<envVars, pureVars, upVars>>

\* as UseCache, never reading the snapshot
UseCache_never(force) == FALSE

\* if not force_refresh and os.path.exists(cache_file): return json.load(f)
UseCache(force) == ~force /\ cache_file.exists

SchemaCached ==
    /\ op = "get_schema_info" /\ op_pc = "start"
    /\ UseCache(force_refresh)
    /\ IF JsonValid(cache_file.text)
       THEN op_pc' = "returned" /\ result' = Returned(JsonLoad(cache_file.text), None)
       ELSE op_pc' = "raised" /\ result' = Raised("JSONDecodeError")
    /\ UNCHANGED <<op, query, force_refresh, pending, exc, schema_data, calls, last_schema>>
    /\ UNCHANGED <<gcVars, envVars, pureVars, upVars>>

SchemaWith ==
    /\ op = "get_schema_info" /\ op_pc = "start"
    /\ ~UseCache(force_refresh)
    /\ EnterWith

\* cursor.execute(schema_query); schema_data = [...]
SchemaQuery ==
    /\ op = "get_schema_info" /\ op_pc = "body"
    /\ conns' = Executed(Chars("schema_query"), TRUE)
    /\ schema_data' = <<SchemaRows(db_schema)>>
    /\ op_pc' = "body2"
    /\ UNCHANGED <<gc_pc, attempt, conn, connect_calls, yields, sleeps>>
    /\ UNCHANGED <<op, query, force_refresh, pending, exc, result, calls, last_schema>>
    /\ UNCHANGED <<envVars, pureVars, upVars>>

\* cursor.execute(fk_query); fk_data = [...]
SchemaFkQuery ==
    /\ op = "get_schema_info" /\ op_pc = "body2"
    /\ conns' = Executed(Chars("fk_query"), TRUE)
    /\ schema_data' = Append(schema_data, FkRows(db_schema))
    /\ op_pc' = "exit"
    /\ UNCHANGED <<gc_pc, attempt, conn, connect_calls, yields, sleeps>>
    /\ UNCHANGED <<op, query, force_refresh, pending, exc, result, calls, last_schema>>
    /\ UNCHANGED <<envVars, pureVars, upVars>>

\* either cursor.execute raises pyodbc.Error: nothing in the body catches it
SchemaQueryError ==
    /\ op = "get_schema_info" /\ op_pc \in {"body", "body2"}
    /\ conns' = Executed(Chars(IF op_pc = "body" THEN "schema_query" ELSE "fk_query"),
                         FALSE)
    /\ op_pc' = "throw" /\ exc' = "pyodbc.Error"
    /\ UNCHANGED <<gc_pc, attempt, conn, connect_calls, yields, sleeps>>
    /\ UNCHANGED <<op, query, force_refresh, pending, result, schema_data, calls, last_schema>>
    /\ UNCHANGED <<envVars, pureVars, upVars>>

\* with open(cache_file, 'w') as f: the file is created or truncated
SchemaOpenCache ==
    /\ op = "get_schema_info" /\ op_pc = "build"
    /\ cache_file' = [exists |-> TRUE, text |-> <<>>]
    /\ op_pc' = "dump"
    /\ UNCHANGED <<op, query, force_refresh, pending, exc, result, schema_data, calls, last_schema>>
    /\ UNCHANGED <<gcVars, config_ok, db_schema, pureVars, upVars>>

\* json.dump writes chunk by chunk; the buffer may reach the file in parts
SchemaFlush ==
    /\ op = "get_schema_info" /\ op_pc = "dump"
    /\ LET text == JsonDump(BuildSchemaInfo(schema_data)) IN
        \E k \in (Len(cache_file.text) + 1)..(Len(text) - 1) :
            cache_file' = [exists |-> TRUE, text |-> SubSeq(text, 1, k)]
    /\ UNCHANGED <<opVars, gcVars, config_ok, db_schema, pureVars, upVars>>

\* json.dump completes, the file is closed; return schema_info
SchemaDump ==
    /\ op = "get_schema_info" /\ op_pc = "dump"
    /\ LET schema_info == BuildSchemaInfo(schema_data) IN
        /\ cache_file' = [exists |-> TRUE, text |-> JsonDump(schema_info)]
        /\ result' = Returned(schema_info, None)
    /\ op_pc' = "returned"
    /\ UNCHANGED <<op, query, force_refresh, pending, exc, schema_data, calls, last_schema>>
    /\ UNCHANGED <<gcVars, config_ok, db_schema, pureVars, upVars>>

\* an exception leaves the with statement: nothing in get_schema_info catches
\* it. The exception's traceback keeps a suspended generator alive.
SchemaExcept ==
    /\ op = "get_schema_info" /\ op_pc = "except"
    /\ result' = Raised(exc)
    /\ op_pc' = "raised"
    /\ UNCHANGED <<op, query, force_refresh, pending, exc, schema_data, calls, last_schema>>
    /\ UNCHANGED <<gcVars, envVars, pureVars, upVars>>

\* The suspended generator is closed: by __exit__ itself where contextlib
\* closes it (Python 3.12 on), otherwise when the caller's handler has dropped
\* the exception.
GcFinalize ==
    /\ op = "get_schema_info" /\ op_pc \in {"except", "raised"}
    /\ gc_pc = "yielded"
    /\ conns' = FinalizedConns /\ gc_pc' = FinalizedPc
    /\ UNCHANGED <<attempt, conn, connect_calls, yields, sleeps>>
    /\ UNCHANGED <<opVars, envVars, pureVars, upVars>>

\* Another request runs get_schema_info(force_refresh=False) while this call
\* is under way: os.path.exists(cache_file), open, json.load
ReadSnapshot ==
    /\ op = "get_schema_info" /\ op_pc \notin {"idle", "returned", "raised"}
    /\ UseCache(FALSE)
    /\ rd_result' =
        IF JsonValid(cache_file.text) THEN Returned(JsonLoad(cache_file.text), None)
        ELSE Raised("JSONDecodeError")
    /\ UNCHANGED <<dbVars, pureVars, genVars, rateVars, chatVars, hmVars, waiting>>

(***************************************************************************)
(* OllamaLLM._sanitize_data                                                *)
(***************************************************************************)
IsLetter(c) == c \in UpperSet \cup LowerSet
IsAlnum(c) == IsLetter(c) \/ c \in DigitChars
\* [A-Za-z0-9._%+-], [A-Za-z0-9.-], [A-Z|a-z]
LocalChar(c) == IsAlnum(c) \/ c \in {".", "_", "%", "+", "-"}
DomainChar(c) == IsAlnum(c) \/ c \in {".", "-"}
TldChar(c) == IsLetter(c) \/ c = "|"

\* the position after the run of characters of class In(_) that starts at i
RunEnd(s, i, In(_)) ==
    LET out == {k \in i..Len(s) : ~In(s[k])} IN
    IF out = {} THEN Len(s) + 1 ELSE Min(out)

\* r'\b[A-Za-z0-9._%+-]+@[A-Za-z0-9.-]+\.[A-Z|a-z]{2,}\b' matched at i: the
\* position after the match (the greedy choice: the last dot, then the
\* longest ending), 0 if it does not match at i
EmailEnd(s, i) ==
    LET a == RunEnd(s, i, LocalChar)
        e == RunEnd(s, a + 1, DomainChar)
        ends == {p \in ((a + 2)..(e - 1)) \X ((a + 5)..(Len(s) + 1)) :
                    /\ s[p[1]] = "."
                    /\ p[2] >= p[1] + 3
                    /\ \A k \in (p[1] + 1)..(p[2] - 1) : TldChar(s[k])
                    /\ BoundaryAt(s, p[2])}
        dot == Max({p[1] : p \in ends})
    IN IF ~(BoundaryAt(s, i) /\ a > i /\ a <= Len(s) /\ s[a] = "@") THEN 0
       ELSE IF ends = {} THEN 0
       ELSE Max({p[2] : p \in {x \in ends : x[1] = dot}})

\* r'\b\d{10,}\b' matched at i: the position after the match, 0 if none
IsDigit(c) == c \in DigitChars
PhoneEnd(s, i) ==
    LET e == RunEnd(s, i, IsDigit) IN
    IF BoundaryAt(s, i) /\ e - i >= 10 /\ BoundaryAt(s, e) THEN e ELSE 0

\* re.sub(pattern, repl, value) on s from position pos on, End(s, i) telling
\* where a match that starts at i ends
RECURSIVE Sub(_, _, _, _)
Sub(s, pos, End(_, _), repl) ==
    LET starts == {i \in pos..Len(s) : End(s, i) # 0} IN
    IF starts = {} THEN SubSeq(s, pos, Len(s))
    ELSE SubSeq(s, pos, Min(starts) - 1) \o repl
            \o Sub(s, End(s, Min(starts)), End, repl)

SensitiveWords == {"password", "secret", "address", "phone", "fax"}

_sanitize_data(value) ==
    LET v1 == Sub(value, 1, EmailEnd, Chars("[EMAIL]"))
        v2 == Sub(v1, 1, PhoneEnd, Chars("[PHONE]"))
    IN IF \E word \in SensitiveWords : Contains(Lower(v2), Chars(word))
       THEN Chars("[REDACTED]") ELSE v2

(***************************************************************************)
(* OllamaLLM.format_response. The statistics of the headers are computed   *)
(* on columns without NULL.                                                *)
(***************************************************************************)
\* the symbols of the messages, one character each
Sym(code) == <<code>>
Magnifier == Sym("U+1F50D")
Package == Sym("U+1F4E6")
BarChart == Sym("U+1F4CA")
MoneyBag == Sym("U+1F4B0")
LabelTag == Sym("U+1F3F7") \o Sym("U+FE0F")
Abacus == Sym("U+1F9EE")
ChartUp == Sym("U+1F4C8")
Dividers == Sym("U+1F5C2") \o Sym("U+FE0F")
Truck == Sym("U+1F69A")
Office == Sym("U+1F3E2")
Necktie == Sym("U+1F454")
People == Sym("U+1F465")
Calendar == Sym("U+1F4C5")
WorldMap == Sym("U+1F5FA") \o Sym("U+FE0F")
Globe == Sym("U+1F30D")
Receiver == Sym("U+1F4DE")
RoundPin == Sym("U+1F4CD")
Telephone == Sym("U+260E") \o Sym("U+FE0F")
Pushpin == Sym("U+1F4CC")
Bullet == Sym("U+2022")

\* 'c' in df.columns; df['c']
HasColumn(results, c) == DictHas(results[1], c)
Column(results, c) == [i \in 1..Len(results) |-> DictGet(results[i], c)]
\* df['c'].nunique()
NUnique(col) == Cardinality({col[i] : i \in {k \in 1..Len(col) : col[k] # Null}})
\* df['c'].sum(), .min(), .max() on the numbers of a column
RECURSIVE SumNum(_)
SumNum(col) == IF col = <<>> THEN 0 ELSE Head(col).num + SumNum(Tail(col))
MinNum(col) == Min({col[i].num : i \in 1..Len(col)})
MaxNum(col) == Max({col[i].num : i \in 1..Len(col)})
\* the denominator of num: an int counts units, a Decimal counts 10^-4
Denominator(col) == IF col[1].kind = "dec" THEN 10000 ELSE 1

\* f"{df['c'].nunique() if 'c' in df.columns else 'N/A'}"
NUniqueOrNA(results, c) ==
    IF HasColumn(results, c) THEN Str(NUnique(Column(results, c))) ELSE Chars("N/A")

\* for k, v in row.items(): if pd.notna(v): record.append(...)
RECURSIVE RecordLines(_)
RecordLines(row) ==
    IF row = <<>> THEN <<>>
    ELSE (IF Head(row)[2] # Null
          THEN <<Bullet \o Chars(" " \o Head(row)[1] \o ": ")
                    \o _sanitize_data(PyStr(Head(row)[2]))>>
          ELSE <<>>)
         \o RecordLines(Tail(row))

_format_all_records(results) ==
    Join([idx \in 1..Len(results) |->
            Join(<<Pushpin \o Chars(" Record ") \o Str(idx) \o Chars(":")>>
                    \o RecordLines(results[idx]),
                 <<"\n">>)],
         Chars("\n\n"))

_format_product_response(results, user_query) ==
    LET price == Column(results, "UnitPrice")
        quantity == Column(results, "Quantity")
    IN <<Package \o Chars(" *Product Analysis: ") \o user_query \o Chars("*"),
         BarChart \o Chars(" Total Records: ") \o Str(Len(results)),
         MoneyBag \o Chars(" Price Range: $")
            \o Fixed(MinNum(price), Denominator(price), 2) \o Chars("-$")
            \o Fixed(MaxNum(price), Denominator(price), 2),
         LabelTag \o Chars(" Unique Products: ")
            \o Str(NUnique(Column(results, "ProductName")))>>
       \o (IF HasColumn(results, "Quantity")
           THEN <<Abacus \o Chars(" Total Units: ") \o Str(SumNum(quantity)),
                  ChartUp \o Chars(" Avg Order Size: ")
                    \o Fixed(SumNum(quantity), Len(quantity), 1) \o Chars(" units")>>
           ELSE <<>>)
       \o (IF HasColumn(results, "CategoryID")
           THEN <<Dividers \o Chars(" Categories: ")
                    \o Str(NUnique(Column(results, "CategoryID")))>>
           ELSE <<>>)

_format_shipper_response(results, user_query) ==
    LET freight == Column(results, "Freight") IN
    <<Truck \o Chars(" *Shipping Analysis: ") \o user_query \o Chars("*"),
      Package \o Chars(" Total Shipments: ") \o Str(Len(results)),
      Office \o Chars(" Shipping Companies: ") \o NUniqueOrNA(results, "CompanyName")>>
    \o (IF HasColumn(results, "Freight")
        THEN <<MoneyBag \o Chars(" Total Freight Costs: $")
                    \o Fixed(SumNum(freight), Denominator(freight), 2),
               BarChart \o Chars(" Avg Freight Cost: $")
                    \o Fixed(SumNum(freight), Denominator(freight) * Len(freight), 2)>>
        ELSE <<>>)

_format_employee_response(results, user_query) ==
    LET hired == Column(results, "HireDate")
    IN <<Necktie \o Chars(" *Employee Analysis: ") \o user_query \o Chars("*"),
         People \o Chars(" Total Employees: ") \o Str(Len(results)),
         Calendar \o Chars(" Hire Date Range: ")
            \o (IF HasColumn(results, "HireDate")
                THEN FormatDate(MinNum(hired)) \o Chars(" to ") \o FormatDate(MaxNum(hired))
                ELSE Chars("N/A to N/A")),
         Office \o Chars(" Titles: ") \o NUniqueOrNA(results, "Title") \o Chars(" unique")>>
       \o (IF HasColumn(results, "TerritoryID")
           THEN <<WorldMap \o Chars(" Territories Covered: ")
                    \o Str(NUnique(Column(results, "TerritoryID")))>>
           ELSE <<>>)

_format_company_response(results, user_query) ==
    LET entity_type == IF HasColumn(results, "SupplierID") THEN "Supplier" ELSE "Customer"
    IN <<Office \o Chars(" *" \o entity_type \o " Analysis: ") \o user_query \o Chars("*"),
         Globe \o Chars(" Countries: ") \o NUniqueOrNA(results, "Country"),
         Receiver \o Chars(" Contacts: ") \o NUniqueOrNA(results, "ContactName"),
         RoundPin \o Chars(" Cities: ") \o NUniqueOrNA(results, "City")>>
       \o (IF HasColumn(results, "Phone")
           THEN <<Telephone \o Chars(" Phone: [REDACTED]")>> ELSE <<>>)

_format_general_response(results, user_query) ==
    <<Magnifier \o Chars(" *Query Results: ") \o user_query \o Chars("*"),
      BarChart \o Chars(" Records Found: ") \o Str(Len(results))>>

\* as Shape, with the shipper rule tried before the company rule
Shape_shipper_before_company(results) ==
    IF HasColumn(results, "ProductName") /\ HasColumn(results, "UnitPrice")
    THEN "product"
    ELSE IF HasColumn(results, "OrderID")
            /\ (HasColumn(results, "CustomerID") \/ HasColumn(results, "ShipVia"))
    THEN "order"
    ELSE IF HasColumn(results, "EmployeeID") /\ HasColumn(results, "LastName")
    THEN "employee"
    ELSE IF HasColumn(results, "ShipperID") \/ HasColumn(results, "ShipVia")
    THEN "shipper"
    ELSE IF HasColumn(results, "CompanyName") /\ HasColumn(results, "ContactName")
    THEN "company"
    ELSE "general"

\* the rule that selects the renderer
Shape(results) ==
    IF HasColumn(results, "ProductName") /\ HasColumn(results, "UnitPrice")
    THEN "product"
    ELSE IF HasColumn(results, "OrderID")
            /\ (HasColumn(results, "CustomerID") \/ HasColumn(results, "ShipVia"))
    THEN "order"
    ELSE IF HasColumn(results, "EmployeeID") /\ HasColumn(results, "LastName")
    THEN "employee"
    ELSE IF HasColumn(results, "CompanyName") /\ HasColumn(results, "ContactName")
    THEN "company"
    ELSE IF HasColumn(results, "ShipperID") \/ HasColumn(results, "ShipVia")
    THEN "shipper"
    ELSE "general"

NoDataFound == Magnifier \o Chars(" No data found matching your query")

\* What format_response returns or raises. _format_order_response builds its
\* fourth line with the format specification ".1f if 'OrderID' in df.columns
\* else 'N/A'", which no number accepts: ValueError.
format_response(user_query, results) ==
    IF results = <<>> THEN Returned(NoDataFound, None)
    ELSE LET shape == Shape(results)
             analysis ==
                CASE shape = "product" -> _format_product_response(results, user_query)
                  [] shape = "employee" -> _format_employee_response(results, user_query)
                  [] shape = "company" -> _format_company_response(results, user_query)
                  [] shape = "shipper" -> _format_shipper_response(results, user_query)
                  [] OTHER -> _format_general_response(results, user_query)
         IN IF shape = "order" THEN Raised("ValueError")
            ELSE Returned(Join(analysis, <<"\n">>) \o Chars("\n\n")
                            \o _format_all_records(results),
                          None)

(***************************************************************************)
(* OllamaLLM.generate_sql                                                  *)
(***************************************************************************)
MaxGenCalls == 2

\* texts ollama.generate returns in response['response']
ModelOutputs ==
    {Chars("SELECT * FROM Customers"),
     Chars("SELECT TOP 50 * FROM Orders"),
     Chars("SELECT TOP 5 * FROM Orders"),
     Chars("SELECT TOP 500 * FROM Orders"),
     Chars("SELECT * FROM Orders LIMIT 5"),
     Chars("select a from (select b from t) x"),
     Chars("SELECT * FROM t WHERE n = 'top 50'"),
     Chars("SELECT a FROM t; DROP TABLE t"),
     Chars("Here you go:\nSELECT a FROM t"),
     Chars("DELETE FROM Orders"),
     Chars("SELECT a FROM t\n") \o CodeFence \o Chars("\nThis lists a")}

\* what an attempt makes of each of these texts
AttemptResults == [raw \in ModelOutputs |-> attempt_result(raw)]

\* the state of a generate_sql call that has just begun
BeginGenerateSql ==
    /\ gs_pc' = "try" /\ gs_attempt' = 0 /\ response' = <<>> /\ gs_result' = <<>>
    /\ gs_sleeps' = <<>> /\ model_calls' = 0 /\ gs_calls' = gs_calls + 1

StartGenerateSql ==
    /\ gs_pc \in {"idle", "returned"} /\ gs_calls < MaxGenCalls
    /\ BeginGenerateSql
    /\ UNCHANGED <<dbVars, rateVars, chatVars, hmVars, pureVars, concVars>>

\* as FailAttempt, sleeping after the last attempt too
FailAttempt_sleep_always ==
    /\ gs_sleeps' = Append(gs_sleeps, 1 + gs_attempt)
    /\ IF gs_attempt = MAX_SQL_ATTEMPTS - 1
       THEN gs_result' = None /\ gs_pc' = "returned" /\ UNCHANGED gs_attempt
       ELSE gs_attempt' = gs_attempt + 1 /\ gs_pc' = "try" /\ UNCHANGED gs_result

\* except Exception as e: return None after the last attempt, otherwise
\* time.sleep(1 + attempt) and the next turn of the loop
FailAttempt ==
    IF gs_attempt = MAX_SQL_ATTEMPTS - 1
    THEN /\ gs_result' = None /\ gs_pc' = "returned"
         /\ UNCHANGED <<gs_attempt, gs_sleeps>>
    ELSE /\ gs_sleeps' = Append(gs_sleeps, 1 + gs_attempt)
         /\ gs_attempt' = gs_attempt + 1 /\ gs_pc' = "try"
         /\ UNCHANGED gs_result

\* schema_info = DatabaseManager.get_schema_info()
GsGetSchema ==
    /\ gs_pc = "try"
    /\ op' = "get_schema_info" /\ op_pc' = "start" /\ query' = <<>>
    /\ force_refresh' = FALSE
    /\ BeginCall
    /\ gs_pc' = "schema"
    /\ UNCHANGED <<gs_attempt, response, gs_result, gs_sleeps, model_calls, gs_calls>>
    /\ UNCHANGED <<envVars, rateVars, chatVars, hmVars, pureVars, concVars>>

GsSchemaReturned ==
    /\ gs_pc = "schema" /\ op = "get_schema_info" /\ op_pc = "returned"
    /\ gs_pc' = "generate"
    /\ UNCHANGED <<gs_attempt, response, gs_result, gs_sleeps, model_calls, gs_calls>>
    /\ UNCHANGED <<dbVars, rateVars, chatVars, hmVars, pureVars, concVars>>

\* get_schema_info raised
GsSchemaRaised ==
    /\ gs_pc = "schema" /\ op = "get_schema_info" /\ op_pc = "raised"
    /\ FailAttempt
    /\ UNCHANGED <<response, model_calls, gs_calls>>
    /\ UNCHANGED <<dbVars, rateVars, chatVars, hmVars, pureVars, concVars>>

\* response = ollama.generate(...)
GsGenerate ==
    /\ gs_pc = "generate"
    /\ response' \in ModelOutputs
    /\ model_calls' = model_calls + 1
    /\ gs_pc' = "clean"
    /\ UNCHANGED <<gs_attempt, gs_result, gs_sleeps, gs_calls>>
    /\ UNCHANGED <<dbVars, rateVars, chatVars, hmVars, pureVars, concVars>>

\* ollama.generate raises (the model server cannot be reached)
GsModelError ==
    /\ gs_pc = "generate"
    /\ model_calls' = model_calls + 1
    /\ FailAttempt
    /\ UNCHANGED <<response, gs_calls>>
    /\ UNCHANGED <<dbVars, rateVars, chatVars, hmVars, pureVars, concVars>>

\* sql = self._clean_sql(response['response']); every check passes; return sql
GsReturn ==
    /\ gs_pc = "clean"
    /\ AttemptResults[response] # None
    /\ gs_result' = AttemptResults[response]
    /\ gs_pc' = "returned"
    /\ UNCHANGED <<gs_attempt, response, gs_sleeps, model_calls, gs_calls>>
    /\ UNCHANGED <<dbVars, rateVars, chatVars, hmVars, pureVars, concVars>>

\* a validation check raises ValueError
GsRejected ==
    /\ gs_pc = "clean"
    /\ AttemptResults[response] = None
    /\ FailAttempt
    /\ UNCHANGED <<response, model_calls, gs_calls>>
    /\ UNCHANGED <<dbVars, rateVars, chatVars, hmVars, pureVars, concVars>>

(***************************************************************************)
(* RateLimiter.check_rate_limit                                            *)
(***************************************************************************)
MAX_REQUESTS_PER_MINUTE == 10

MaxRequests == 12
MaxClock == 60
NumUsers == 2
Users == 1..NumUsers
\* seconds by which time.time() advances between two steps
TickSteps == {30}

\* the one-character texts that stand for the symbols of the messages
WarningSign == <<"U+26A0", "U+FE0F">>

TooManyRequests == WarningSign \o Chars(" Too many requests. Please wait a minute.")

\* as Purge, keeping every request
Purge_never(requests, t_now) == requests

\* as Purge, keeping a request for 60 seconds inclusive
Purge_inclusive(requests, t_now) ==
    LET Recent(t) == t_now - t <= 60 IN SelectSeq(requests, Recent)

\* [t for t in self.user_requests[user_id] if now - t < 60]
Purge(requests, t_now) ==
    LET Recent(t) == t_now - t < 60 IN SelectSeq(requests, Recent)

\* self.user_requests[user_id], after "if user_id not in self.user_requests"
RequestsOf(u) == IF u \in DOMAIN user_requests THEN user_requests[u] ELSE <<>>

\* as SetRequests, forgetting the lists of the other callers
SetRequests_only(u, requests) == [x \in {u} |-> requests]

\* self.user_requests[user_id] = requests
SetRequests(u, requests) ==
    [x \in DOMAIN user_requests \cup {u} |->
        IF x = u THEN requests ELSE user_requests[x]]

\* user_id = update.effective_user.id; now = time.time()
BeginCheckRateLimit(u) ==
    /\ rl_user' = u /\ now' = clock /\ rl_pc' = "lock" /\ rl_result' = FALSE
    /\ rl_calls' = rl_calls + 1

StartCheckRateLimit ==
    /\ rl_pc \in {"idle", "returned", "raised"} /\ rl_calls < MaxRequests
    /\ \E u \in Users : BeginCheckRateLimit(u)
    /\ UNCHANGED <<clock, user_requests, lock, rl_allowed, rl_denied, sent>>
    /\ UNCHANGED <<dbVars, genVars, hmVars, pureVars, concVars>>

\* with self.lock: purge; fewer than the maximum: append(now); return True
RlAllowed ==
    /\ rl_pc = "lock" /\ ~lock
    /\ LET window == Purge(RequestsOf(rl_user), now) IN
        /\ Len(window) < MAX_REQUESTS_PER_MINUTE
        /\ user_requests' = SetRequests(rl_user, Append(window, now))
    /\ rl_result' = TRUE /\ rl_pc' = "returned"
    /\ rl_allowed' = [rl_allowed EXCEPT ![rl_user] = Append(@, now)]
    /\ UNCHANGED <<clock, lock, rl_user, now, rl_calls, rl_denied, sent>>
    /\ UNCHANGED <<dbVars, genVars, hmVars, pureVars, concVars>>

\* with self.lock: purge; the maximum is reached: await reply_text(...), the
\* lock is held while the coroutine is suspended
RlDenied ==
    /\ rl_pc = "lock" /\ ~lock
    /\ LET window == Purge(RequestsOf(rl_user), now) IN
        /\ Len(window) >= MAX_REQUESTS_PER_MINUTE
        /\ user_requests' = SetRequests(rl_user, window)
    /\ lock' = TRUE /\ rl_pc' = "reply"
    /\ UNCHANGED <<clock, rl_user, now, rl_result, rl_calls, rl_allowed, rl_denied, sent>>
    /\ UNCHANGED <<dbVars, genVars, hmVars, pureVars, concVars>>

\* the reply is sent: return False, the with statement releases the lock
RlReply ==
    /\ rl_pc = "reply"
    /\ sent' = Append(sent, TooManyRequests)
    /\ lock' = FALSE /\ rl_result' = FALSE /\ rl_pc' = "returned"
    /\ rl_denied' = [rl_denied EXCEPT ![rl_user] = Append(@, now)]
    /\ UNCHANGED <<clock, user_requests, rl_user, now, rl_calls, rl_allowed>>
    /\ UNCHANGED <<dbVars, genVars, hmVars, pureVars, concVars>>

\* reply_text raises (the chat cannot be reached): the with statement
\* releases the lock, the exception leaves check_rate_limit
RlReplyError ==
    /\ rl_pc = "reply"
    /\ lock' = FALSE /\ rl_pc' = "raised"
    /\ rl_denied' = [rl_denied EXCEPT ![rl_user] = Append(@, now)]
    /\ UNCHANGED <<clock, user_requests, rl_user, now, rl_result, rl_calls,
                   rl_allowed, sent>>
    /\ UNCHANGED <<dbVars, genVars, hmVars, pureVars, concVars>>

\* time passes
Tick ==
    /\ \E d \in TickSteps : clock + d <= MaxClock /\ clock' = clock + d
    /\ UNCHANGED <<user_requests, lock, rl_pc, rl_user, now, rl_result, rl_calls,
                   rl_allowed, rl_denied, sent>>
    /\ UNCHANGED <<dbVars, genVars, hmVars, pureVars, concVars>>

(***************************************************************************)
(* check_rate_limit, several calls at a time                               *)
(***************************************************************************)
MaxWaiting == 1

\* A further call runs user_id = ..., now = time.time() and then stands at
\* "with self.lock:" until it gets the lock.
RlArrive ==
    /\ rl_calls < MaxRequests /\ Len(waiting) < MaxWaiting
    /\ \E u \in Users : waiting' = Append(waiting, [user |-> u, now |-> clock])
    /\ rl_calls' = rl_calls + 1
    /\ UNCHANGED <<clock, user_requests, lock, rl_pc, rl_user, now, rl_result,
                   rl_allowed, rl_denied, sent, rd_result>>
    /\ UNCHANGED <<dbVars, genVars, hmVars, pureVars>>

\* with self.lock: one of the calls that stand there acquires the free lock
\* and goes on with the now it has read
RlResume ==
    /\ rl_pc \in {"idle", "returned", "raised"} /\ ~lock
    /\ \E i \in 1..Len(waiting) :
        /\ rl_user' = waiting[i].user /\ now' = waiting[i].now
        /\ waiting' = SubSeq(waiting, 1, i - 1) \o SubSeq(waiting, i + 1, Len(waiting))
    /\ rl_pc' = "lock" /\ rl_result' = FALSE
    /\ UNCHANGED <<clock, user_requests, lock, rl_calls, rl_allowed, rl_denied,
                   sent, rd_result>>
    /\ UNCHANGED <<dbVars, genVars, hmVars, pureVars>>

\* On one event loop a call that stands at "with self.lock:" blocks the
\* loop's thread: threading.Lock.acquire does not give control back.
LoopBlocked == lock /\ waiting # <<>>

\* the event loop starts the next handler while the running one is suspended
\* in "await update.message.reply_text"
LoopArrive == rl_pc = "reply" /\ ~LoopBlocked /\ RlArrive

\* the suspended call goes on when the loop runs it again
LoopReply == ~LoopBlocked /\ RlReply

LoopReplyError == ~LoopBlocked /\ RlReplyError

(***************************************************************************)
(* handle_message                                                          *)
(***************************************************************************)
MaxMessages == 1

\* update.message.text
Messages ==
    {"hello", "  Hi there ", "Show customers from Germany", "show shipping costs"}

Greetings ==
    {"hi", "hello", "hey", "good morning", "good evening", "good afternoon"}

\* any(re.search(rf"\b{greeting}\b", text, re.IGNORECASE) for greeting in greetings)
is_greeting(text) ==
    LET lowered == Lower(text) IN
    \E greeting \in Greetings : \E i \in 1..Len(text) :
        WordAt(lowered, i, Chars(greeting))

ChunkLength == 4096

\* send_long_message: for i in range(0, len(text), 4096): reply_text(text[i:i+4096])
Chunks(text) ==
    [i \in 1..((Len(text) + ChunkLength - 1) \div ChunkLength) |->
        SubSeq(text, ChunkLength * (i - 1) + 1,
               IF ChunkLength * i < Len(text) THEN ChunkLength * i ELSE Len(text))]

\* the fixed messages of handle_message
GreetingReply ==
    Sym("U+1F44B") \o Chars(" Hello! How can I help with Northwind data today?")
NoQueryReply ==
    Sym("U+1F914")
    \o Chars(" I couldn't generate a valid query. Try something like 'Show customers from Germany'")
QueryStructureReply ==
    WarningSign
    \o Chars(" There was an issue with the query structure. Please try rephrasing your request.")
UnexpectedReply ==
    WarningSign \o Chars(" An unexpected error occurred. Please try again.")
NoDataReply(message) == Magnifier \o Chars(" No data found for: ") \o message

\* if "invalid column name" in error.lower(): ... else: reply_text(f"<sign> {error}")
ErrorReply(error) ==
    IF Contains(Lower(error), Chars("invalid column name"))
    THEN QueryStructureReply
    ELSE WarningSign \o Chars(" ") \o error

\* user_message = update.message.text.strip(); check_rate_limit(update) is called
StartHandleMessage ==
    /\ hm_pc \in {"idle", "done", "raised"} /\ hm_calls < MaxMessages
    /\ \E text \in Messages : user_message' = Strip(Chars(text))
    /\ \E u \in Users : BeginCheckRateLimit(u)
    /\ hm_pc' = "rate" /\ hm_calls' = hm_calls + 1
    /\ hm_steps' = <<"check_rate_limit">>
    /\ UNCHANGED <<clock, user_requests, lock, rl_allowed, rl_denied, sent>>
    /\ UNCHANGED <<dbVars, genVars, pureVars, concVars>>

\* if not await rate_limiter.check_rate_limit(update): return
HmRateDenied ==
    /\ hm_pc = "rate" /\ rl_pc = "returned" /\ ~rl_result
    /\ hm_pc' = "done"
    /\ UNCHANGED <<user_message, hm_calls, hm_steps>>
    /\ UNCHANGED <<dbVars, genVars, rateVars, chatVars, pureVars, concVars>>

\* check_rate_limit raised: the call is outside the try statement
HmRateRaised ==
    /\ hm_pc = "rate" /\ rl_pc = "raised"
    /\ hm_pc' = "raised"
    /\ UNCHANGED <<user_message, hm_calls, hm_steps>>
    /\ UNCHANGED <<dbVars, genVars, rateVars, chatVars, pureVars, concVars>>

\* if is_greeting(user_message): reply; return
HmGreeting ==
    /\ hm_pc = "rate" /\ rl_pc = "returned" /\ rl_result
    /\ is_greeting(user_message)
    /\ sent' = Append(sent, GreetingReply)
    /\ hm_pc' = "done"
    /\ UNCHANGED <<user_message, hm_calls, hm_steps>>
    /\ UNCHANGED <<dbVars, genVars, rateVars, pureVars, concVars>>

\* as HmGenerateSql, without the test of is_greeting
HmGenerateSql_any_message ==
    /\ hm_pc = "rate" /\ rl_pc = "returned" /\ rl_result
    /\ BeginGenerateSql
    /\ hm_pc' = "sql"
    /\ hm_steps' = Append(hm_steps, "generate_sql")
    /\ UNCHANGED <<user_message, hm_calls>>
    /\ UNCHANGED <<dbVars, rateVars, chatVars, pureVars, concVars>>

\* query = ollama_llm.generate_sql(user_message)
HmGenerateSql ==
    /\ hm_pc = "rate" /\ rl_pc = "returned" /\ rl_result
    /\ ~is_greeting(user_message)
    /\ BeginGenerateSql
    /\ hm_pc' = "sql"
    /\ hm_steps' = Append(hm_steps, "generate_sql")
    /\ UNCHANGED <<user_message, hm_calls>>
    /\ UNCHANGED <<dbVars, rateVars, chatVars, pureVars, concVars>>

\* if not query: reply; return
HmNoQuery ==
    /\ hm_pc = "sql" /\ gs_pc = "returned" /\ gs_result \in {None, <<>>}
    /\ sent' = Append(sent, NoQueryReply)
    /\ hm_pc' = "done"
    /\ UNCHANGED <<user_message, hm_calls, hm_steps>>
    /\ UNCHANGED <<dbVars, genVars, rateVars, pureVars, concVars>>

\* results, error = DatabaseManager.execute_query(query)
HmExecuteQuery ==
    /\ hm_pc = "sql" /\ gs_pc = "returned" /\ gs_result \notin {None, <<>>}
    /\ query' = gs_result
    /\ op' = "execute_query" /\ op_pc' = "start" /\ force_refresh' = FALSE
    /\ BeginCall
    /\ hm_pc' = "exec"
    /\ hm_steps' = Append(hm_steps, "execute_query")
    /\ UNCHANGED <<user_message, hm_calls>>
    /\ UNCHANGED <<envVars, genVars, rateVars, chatVars, pureVars, concVars>>

\* if error: reply with the fixed text or with the error; return
HmQueryError ==
    /\ hm_pc = "exec" /\ op = "execute_query" /\ op_pc = "returned"
    /\ result.error \notin {None, <<>>}
    /\ sent' = Append(sent, ErrorReply(result.error))
    /\ hm_pc' = "done"
    /\ UNCHANGED <<user_message, hm_calls, hm_steps>>
    /\ UNCHANGED <<dbVars, genVars, rateVars, pureVars, concVars>>

\* if not results: reply "No data found for: ..."
HmNoResults ==
    /\ hm_pc = "exec" /\ op = "execute_query" /\ op_pc = "returned"
    /\ result.error \in {None, <<>>} /\ result.value = <<>>
    /\ sent' = Append(sent, NoDataReply(user_message))
    /\ hm_pc' = "done"
    /\ UNCHANGED <<user_message, hm_calls, hm_steps>>
    /\ UNCHANGED <<dbVars, genVars, rateVars, pureVars, concVars>>

\* response = format_response(user_message, results); send_long_message
HmSendResponse ==
    /\ hm_pc = "exec" /\ op = "execute_query" /\ op_pc = "returned"
    /\ result.error \in {None, <<>>} /\ result.value # <<>>
    /\ format_response(user_message, result.value).kind = "return"
    /\ sent' = sent \o Chunks(format_response(user_message, result.value).value)
    /\ hm_pc' = "done"
    /\ hm_steps' = Append(hm_steps, "format_response")
    /\ UNCHANGED <<user_message, hm_calls>>
    /\ UNCHANGED <<dbVars, genVars, rateVars, pureVars, concVars>>

\* format_response raises: except Exception: reply with the fixed text
HmFormatError ==
    /\ hm_pc = "exec" /\ op = "execute_query" /\ op_pc = "returned"
    /\ result.error \in {None, <<>>} /\ result.value # <<>>
    /\ format_response(user_message, result.value).kind = "raise"
    /\ sent' = Append(sent, UnexpectedReply)
    /\ hm_pc' = "done"
    /\ hm_steps' = Append(hm_steps, "format_response")
    /\ UNCHANGED <<user_message, hm_calls>>
    /\ UNCHANGED <<dbVars, genVars, rateVars, pureVars, concVars>>

(***************************************************************************)
(* The environment                                                         *)
(***************************************************************************)
\* the database's metadata changes
DbChange ==
    /\ \E v \in 1..NumSchemas : v # db_schema /\ db_schema' = v
    /\ UNCHANGED <<opVars, gcVars, config_ok, cache_file, pureVars, upVars>>

\* the process is killed and started again: the file stays as it is, the
\* server drops the connections
Crash ==
    /\ op_pc \notin {"idle", "returned", "raised"}
    /\ op' = "none" /\ op_pc' = "idle" /\ query' = <<>> /\ force_refresh' = FALSE
    /\ pending' = NoResult /\ exc' = "none" /\ result' = NoResult
    /\ gc_pc' = "none" /\ attempt' = 0 /\ conn' = 0 /\ conns' = <<>>
    /\ connect_calls' = 0 /\ yields' = 0 /\ sleeps' = <<>>
    /\ schema_data' = <<>>
    /\ gs_pc' = "idle" /\ gs_attempt' = 0 /\ response' = <<>> /\ gs_result' = <<>>
    /\ gs_sleeps' = <<>> /\ model_calls' = 0
    /\ user_requests' = <<>> /\ lock' = FALSE /\ rl_pc' = "idle" /\ rl_user' = 0
    /\ now' = 0 /\ rl_result' = FALSE
    /\ rl_allowed' = [u \in Users |-> <<>>] /\ rl_denied' = [u \in Users |-> <<>>]
    /\ hm_pc' = "idle" /\ user_message' = <<>>
    /\ hm_steps' = <<>>
    /\ rd_result' = NoResult /\ waiting' = <<>>
    /\ UNCHANGED <<calls, last_schema, gs_calls, clock, rl_calls, sent, hm_calls,
                   envVars, pureVars>>

DbIdle ==
    /\ op = "none" /\ op_pc = "idle" /\ query = <<>> /\ force_refresh = FALSE
    /\ pending = NoResult /\ exc = "none" /\ result = NoResult
    /\ gc_pc = "none" /\ attempt = 0 /\ conn = 0 /\ conns = <<>>
    /\ connect_calls = 0 /\ yields = 0 /\ sleeps = <<>>
    /\ schema_data = <<>> /\ calls = 0 /\ last_schema = NoSchema
    /\ config_ok = TRUE /\ cache_file = NoFile /\ db_schema = 1

GenIdle ==
    /\ gs_pc = "idle" /\ gs_attempt = 0 /\ response = <<>> /\ gs_result = <<>>
    /\ gs_sleeps = <<>> /\ model_calls = 0 /\ gs_calls = 0

RateIdle ==
    /\ clock = 0 /\ user_requests = <<>> /\ lock = FALSE /\ rl_pc = "idle"
    /\ rl_user = 0 /\ now = 0 /\ rl_result = FALSE /\ rl_calls = 0
    /\ rl_allowed = [u \in Users |-> <<>>] /\ rl_denied = [u \in Users |-> <<>>]

HmIdle == hm_pc = "idle" /\ user_message = <<>> /\ hm_calls = 0 /\ hm_steps = <<>>

ConcIdle == rd_result = NoResult /\ waiting = <<>>

UpIdle == GenIdle /\ RateIdle /\ sent = <<>> /\ HmIdle /\ ConcIdle

(***************************************************************************)
(* Pure functions under test: the input is drawn, then the function runs   *)
(***************************************************************************)
PureIdle == fn = "none" /\ arg = <<>> /\ ret = <<>>

\* Inputs of _is_query_safe: up to MaxToks tokens, each two of them
\* separated by a blank or by a line break.
MaxToks == 3

SafeToks ==
    {"select a from t where", "1=1", "1 = 1", "union", "SELECT", "Drop",
     "UPDATE", "updated_at", ";", "exec", "sp_who", "--", "/", "\\", "x"}
SafeSeps == {" ", "\n"}

\* arg is <<tokens, separators>>; the text is the tokens joined pairwise
RECURSIVE Interleave(_, _)
Interleave(toks, seps) ==
    IF Len(toks) = 0 THEN <<>>
    ELSE IF Len(toks) = 1 THEN Chars(toks[1])
    ELSE Chars(toks[1]) \o Chars(seps[1])
            \o Interleave(Tail(toks), Tail(seps))

SafeInputs ==
    UNION {[1..n -> SafeToks] \X [1..(n - 1) -> SafeSeps] : n \in 1..MaxToks}

SafeInit == fn = "none" /\ arg \in SafeInputs /\ ret = <<>> /\ DbIdle /\ UpIdle

CheckSafe ==
    /\ fn = "none"
    /\ fn' = "_is_query_safe"
    /\ ret' = _is_query_safe(Interleave(arg[1], arg[2]))
    /\ UNCHANGED <<arg, dbVars, upVars>>

SafeNext == CheckSafe
SpecSafe == SafeInit /\ [][SafeNext]_vars

(***************************************************************************)
(* The database operations, one call after the other                       *)
(***************************************************************************)
DbInit ==
    /\ PureIdle /\ UpIdle
    /\ op = "none" /\ op_pc = "idle" /\ query = <<>> /\ force_refresh = FALSE
    /\ pending = NoResult /\ exc = "none" /\ result = NoResult
    /\ gc_pc = "none" /\ attempt = 0 /\ conn = 0 /\ conns = <<>>
    /\ connect_calls = 0 /\ yields = 0 /\ sleeps = <<>>
    /\ schema_data = <<>> /\ calls = 0 /\ last_schema = NoSchema
    /\ config_ok \in BOOLEAN /\ cache_file \in {NoFile} \cup Snapshots /\ db_schema = 1

DbNext ==
    \/ StartExecuteQuery \/ EqRejected \/ EqWith \/ EqCursorError
    \/ EqExecuteRows \/ EqExecuteNoDescription \/ EqExecuteError \/ EqExcept
    \/ StartSchemaInfo \/ SchemaCached \/ SchemaWith \/ SchemaQuery
    \/ SchemaFkQuery \/ SchemaQueryError \/ SchemaOpenCache \/ SchemaFlush
    \/ SchemaDump \/ SchemaExcept \/ GcFinalize
    \/ GcConfigError \/ GcConnectError \/ GcConnectOk \/ GcExhausted
    \/ GcCommit \/ GcCommitError \/ GcThrow
    \/ DbChange \/ Crash

SpecDb == DbInit /\ [][DbNext]_vars

(***************************************************************************)
(* get_schema_info, with a second request that reads the snapshot          *)
(***************************************************************************)
RefreshNext ==
    \/ StartSchemaInfo \/ SchemaCached \/ SchemaWith \/ SchemaQuery
    \/ SchemaFkQuery \/ SchemaQueryError \/ SchemaOpenCache \/ SchemaFlush
    \/ SchemaDump \/ SchemaExcept \/ GcFinalize
    \/ GcConfigError \/ GcConnectError \/ GcConnectOk \/ GcExhausted
    \/ GcCommit \/ GcCommitError \/ GcThrow
    \/ DbChange \/ ReadSnapshot

SpecRefresh == DbInit /\ [][RefreshNext]_vars

(***************************************************************************)
(* generate_sql, one call after the other                                  *)
(***************************************************************************)
GenInit ==
    /\ PureIdle /\ UpIdle
    /\ op = "none" /\ op_pc = "idle" /\ query = <<>> /\ force_refresh = FALSE
    /\ pending = NoResult /\ exc = "none" /\ result = NoResult
    /\ gc_pc = "none" /\ attempt = 0 /\ conn = 0 /\ conns = <<>>
    /\ connect_calls = 0 /\ yields = 0 /\ sleeps = <<>>
    /\ schema_data = <<>> /\ calls = 0 /\ last_schema = NoSchema
    /\ config_ok \in BOOLEAN /\ cache_file = NoFile /\ db_schema = 1

GenNext ==
    \/ StartGenerateSql \/ GsGetSchema \/ GsSchemaReturned \/ GsSchemaRaised
    \/ GsGenerate \/ GsModelError \/ GsReturn \/ GsRejected
    \/ SchemaCached \/ SchemaWith \/ SchemaQuery
    \/ SchemaFkQuery \/ SchemaQueryError \/ SchemaOpenCache \/ SchemaFlush
    \/ SchemaDump \/ SchemaExcept \/ GcFinalize
    \/ GcConfigError \/ GcConnectError \/ GcConnectOk \/ GcExhausted
    \/ GcCommit \/ GcCommitError \/ GcThrow
    \/ Crash

SpecGen == GenInit /\ [][GenNext]_vars

\* the same, where a step that can be taken is taken eventually: the calls
\* generate_sql makes (the model, the driver, the file system) come back
SpecGenFair == SpecGen /\ WF_vars(GenNext)

(***************************************************************************)
(* check_rate_limit, one call after the other                              *)
(***************************************************************************)
RateInit == PureIdle /\ DbIdle /\ UpIdle

RateNext ==
    \/ StartCheckRateLimit \/ RlAllowed \/ RlDenied \/ RlReply \/ RlReplyError
    \/ Tick

SpecRate == RateInit /\ [][RateNext]_vars

(***************************************************************************)
(* check_rate_limit called from several threads                            *)
(***************************************************************************)
ThreadsNext ==
    \/ StartCheckRateLimit \/ RlAllowed \/ RlDenied \/ RlReply \/ RlReplyError
    \/ RlArrive \/ RlResume \/ Tick

SpecRateThreads == RateInit /\ [][ThreadsNext]_vars

(***************************************************************************)
(* check_rate_limit called from handlers that share one event loop         *)
(***************************************************************************)
LoopNext ==
    \/ StartCheckRateLimit \/ RlAllowed \/ RlDenied \/ LoopReply \/ LoopReplyError
    \/ LoopArrive \/ Tick

\* the chat answers or fails, a handler that can run does run
SpecRateLoop == RateInit /\ [][LoopNext]_vars /\ WF_vars(LoopNext)

(***************************************************************************)
(* format_response on one result set                                       *)
(***************************************************************************)
MaxRows == 2

\* the columns of a result set, and the values a column holds
ColumnSets ==
    {<<"ProductName", "UnitPrice">>, <<"OrderID", "CustomerID">>,
     <<"EmployeeID", "LastName", "HomePhone">>,
     <<"CompanyName", "ContactName", "Phone">>,
     <<"ShipperID", "CompanyName", "Phone">>,
     <<"CustomerID", "Address", "Notes">>}
ColumnValues(c) ==
    CASE c = "ProductName" -> {Text("Chai"), Text("Chang")}
      [] c = "UnitPrice" -> {Decimal(180000), Decimal(192500)}
      [] c = "OrderID" -> {Number(10248)}
      [] c = "CustomerID" -> {Text("VINET")}
      [] c = "EmployeeID" -> {Number(1)}
      [] c = "LastName" -> {Text("Davolio")}
      [] c = "HomePhone" -> {Text("(206) 555-9857"), Null}
      [] c = "CompanyName" -> {Text("Alfreds")}
      [] c = "ContactName" -> {Text("Maria")}
      [] c = "Phone" -> {Text("030-0074321"), Text("5551234567"), Null}
      [] c = "ShipperID" -> {Number(1), Number(2)}
      [] c = "ShipVia" -> {Number(3)}
      [] c = "Address" -> {Text("Obere Str. 57"), Text("my address")}
      [] OTHER -> {Text("maria@example.com"), Text("changed her password")}

\* the rows a cursor with these columns can return
RowsOf(columns) ==
    {row \in [1..Len(columns) -> UNION {ColumnValues(columns[i]) : i \in 1..Len(columns)}] :
        \A i \in 1..Len(columns) : row[i] \in ColumnValues(columns[i])}
FormatInputs ==
    UNION {{[columns |-> columns, rows |-> rows] :
                rows \in UNION {[1..n -> RowsOf(columns)] : n \in 0..MaxRows}} :
           columns \in ColumnSets}

FormatQuery == Chars("show all")

FormatInit == fn = "none" /\ arg \in FormatInputs /\ ret = <<>> /\ DbIdle /\ UpIdle

ApplyFormat ==
    /\ fn = "none"
    /\ fn' = "format_response"
    /\ ret' = format_response(FormatQuery, Results(arg))
    /\ UNCHANGED <<arg, dbVars, upVars>>

FormatNext == ApplyFormat
SpecFormat == FormatInit /\ [][FormatNext]_vars

(***************************************************************************)
(* format_response on one row, for every set of the columns it tests       *)
(***************************************************************************)
\* the columns format_response looks for
ShapeColumns ==
    <<"ProductName", "UnitPrice", "OrderID", "CustomerID", "ShipVia",
      "EmployeeID", "LastName", "CompanyName", "ContactName", "ShipperID">>

\* a result set of one row with the columns at the positions in present
ShapeInput(present) ==
    LET Present(c) == \E i \in present : ShapeColumns[i] = c
        columns == SelectSeq(ShapeColumns, Present)
    IN [columns |-> columns,
        rows |-> <<[i \in 1..Len(columns) |->
                        CHOOSE v \in ColumnValues(columns[i]) : TRUE]>>]
ShapeInputs ==
    {ShapeInput(present) : present \in SUBSET (1..Len(ShapeColumns)) \ {{}}}

ShapeInit == fn = "none" /\ arg \in ShapeInputs /\ ret = <<>> /\ DbIdle /\ UpIdle

SpecShape == ShapeInit /\ [][FormatNext]_vars

(***************************************************************************)
(* handle_message, one message after the other                             *)
(***************************************************************************)
\* a caller whose window is full: ten requests at the time of the start
FullWindow == [i \in 1..MAX_REQUESTS_PER_MINUTE |-> 0]

HandleInit ==
    /\ PureIdle /\ GenIdle /\ HmIdle /\ sent = <<>> /\ ConcIdle
    /\ op = "none" /\ op_pc = "idle" /\ query = <<>> /\ force_refresh = FALSE
    /\ pending = NoResult /\ exc = "none" /\ result = NoResult
    /\ gc_pc = "none" /\ attempt = 0 /\ conn = 0 /\ conns = <<>>
    /\ connect_calls = 0 /\ yields = 0 /\ sleeps = <<>>
    /\ schema_data = <<>> /\ calls = 0 /\ last_schema = NoSchema
    /\ config_ok \in BOOLEAN /\ cache_file = NoFile /\ db_schema = 1
    /\ clock = 0 /\ lock = FALSE /\ rl_pc = "idle"
    /\ rl_user = 0 /\ now = 0 /\ rl_result = FALSE /\ rl_calls = 0
    /\ rl_denied = [u \in Users |-> <<>>]
    /\ \E full \in SUBSET {1} :
        /\ user_requests = [u \in full |-> FullWindow]
        /\ rl_allowed = [u \in Users |-> IF u \in full THEN FullWindow ELSE <<>>]

\* EqRejected is no step here: what generate_sql returns has passed both
\* checks of execute_query.
HandleNext ==
    \/ StartHandleMessage \/ HmRateDenied \/ HmRateRaised \/ HmGreeting
    \/ HmGenerateSql \/ HmNoQuery \/ HmExecuteQuery \/ HmQueryError
    \/ HmNoResults \/ HmSendResponse \/ HmFormatError
    \/ RlAllowed \/ RlDenied \/ RlReply \/ RlReplyError
    \/ GsGetSchema \/ GsSchemaReturned \/ GsSchemaRaised
    \/ GsGenerate \/ GsModelError \/ GsReturn \/ GsRejected
    \/ SchemaCached \/ SchemaWith \/ SchemaQuery
    \/ SchemaFkQuery \/ SchemaQueryError \/ SchemaOpenCache \/ SchemaFlush
    \/ SchemaDump \/ SchemaExcept \/ GcFinalize
    \/ EqWith \/ EqCursorError
    \/ EqExecuteRows \/ EqExecuteNoDescription \/ EqExecuteError \/ EqExcept
    \/ GcConfigError \/ GcConnectError \/ GcConnectOk \/ GcExhausted
    \/ GcCommit \/ GcCommitError \/ GcThrow

SpecHandle == HandleInit /\ [][HandleNext]_vars

(***************************************************************************)
(* Properties                                                              *)
(***************************************************************************)
IsSelect(q) == StartsWith(Lower(Strip(q)), Chars("select"))
Ended == op_pc \in {"returned", "raised"}

\* the queries execute_query is called with that start with select and pass
\* _is_query_safe
AcceptedQueries ==
    {t \in {Chars(q) : q \in QueryInputs} : IsSelect(t) /\ _is_query_safe(t)}

\* C1: a query that does not start with select, or that _is_query_safe
\* rejects, makes execute_query return no rows and an error, with no
\* connection attempt and no statement handed to the driver; every statement
\* that reaches cursor.execute in execute_query is the query, starts with
\* select and passes _is_query_safe.
C1_RejectedBeforeDatabase ==
    op = "execute_query" =>
        LET accepted == query \in AcceptedQueries IN
        /\ ~accepted =>
              /\ connect_calls = 0 /\ conns = <<>>
              /\ op_pc = "returned" =>
                    /\ result.kind = "return" /\ result.value = <<>>
                    /\ result.error # None
        /\ \A c \in 1..Len(conns) : \A i \in 1..Len(conns[c].executed) :
              conns[c].executed[i].stmt = query /\ accepted

C1_Witness ==
    /\ op = "execute_query" /\ op_pc = "returned"
    /\ IsSelect(query) /\ ~_is_query_safe(query)
    /\ result.error = Chars("Query contains potentially unsafe operations")

\* C3: a text with a mutating keyword as a whole word, a ';' followed later
\* by exec or a stored-procedure name, union followed by select, a
\* select-from-where followed by 1=1, a comment marker or a slash is rejected
\* by _is_query_safe, whatever separates its parts.
C3_Marked(toks) ==
    \/ \E i \in 1..Len(toks) : toks[i] \in {"Drop", "UPDATE", "--", "/", "\\"}
    \/ \E i \in 1..Len(toks) : \E j \in (i + 1)..Len(toks) :
        \/ toks[i] = ";" /\ toks[j] \in {"exec", "sp_who"}
        \/ toks[i] = "union" /\ toks[j] \in {"SELECT", "select a from t where"}
        \/ toks[i] = "select a from t where" /\ toks[j] \in {"1=1", "1 = 1"}
C3_MarkedTextRejected ==
    (fn = "_is_query_safe" /\ C3_Marked(arg[1])) => ret = FALSE

\* C5: when execute_query or get_schema_info has returned or raised, every
\* connection opened during the call is closed.
C5_ClosedWhenEnded ==
    Ended => \A c \in 1..Len(conns) : ~conns[c].open

\* C6: in execute_query, a statement that failed with a driver error is
\* rolled back and not committed; a statement that succeeded, in a call that
\* returns rows, is committed once.
C6_RollbackOnDriverError ==
    (op = "execute_query" /\ op_pc = "returned") =>
        \A c \in 1..Len(conns) : \A i \in 1..Len(conns[c].executed) :
            IF conns[c].executed[i].ok
            THEN result.error = None => conns[c].commits = 1
            ELSE conns[c].rollbacks >= 1 /\ conns[c].commits = 0

\* C7: execute_query never raises; it returns (rows, None) or (no rows, error).
C7_NeverRaises ==
    op = "execute_query" =>
        /\ op_pc # "raised"
        /\ op_pc = "returned" =>
              /\ result.kind = "return"
              /\ result.error # None => result.value = <<>>

C7_Witness ==
    /\ op = "execute_query" /\ op_pc = "returned" /\ yields = 2
    /\ result = Returned(<<>>, Chars("Unexpected database error"))

\* C10: get_schema_info(force_refresh=False) raises only after it has run
\* the introspection (entered get_connection) and that has failed; a corrupt
\* snapshot alone does not make it fail.
C10_FailsOnlyWithIntrospection ==
    (op = "get_schema_info" /\ ~force_refresh /\ op_pc = "raised") =>
        gc_pc # "none"

\* C11: a call get_schema_info(force_refresh=False) that follows one that
\* returned, with no forced refresh begun in between, makes no connection
\* attempt, leaves the snapshot as the earlier call left it, and returns what
\* the earlier call returned.
C11_SecondReadIdentical ==
    (op = "get_schema_info" /\ ~force_refresh
        /\ last_schema.result.kind = "return") =>
        /\ op_pc \in {"start", "returned"}
        /\ gc_pc = "none" /\ connect_calls = 0 /\ conns = <<>>
        /\ cache_file = last_schema.file
        /\ op_pc = "returned" => result = last_schema.result

\* the earlier call introspected and wrote the snapshot, the metadata changed
\* since, and the second call has returned
C11_Witness ==
    /\ op = "get_schema_info" /\ ~force_refresh /\ op_pc = "returned"
    /\ last_schema.result.kind = "return" /\ result = last_schema.result
    /\ result.value # BuildSchemaInfo(<<SchemaRows(db_schema), FkRows(db_schema)>>)
    /\ calls = 2

\* the calls of one request, in the order of the source
StepOrder == <<"check_rate_limit", "generate_sql", "execute_query", "format_response">>
Called(step) == \E i \in 1..Len(hm_steps) : hm_steps[i] = step

\* C12: the calls handle_message makes for one message are a prefix of
\* check_rate_limit, generate_sql, execute_query, format_response; a denied
\* request and a greeting call neither generate_sql nor execute_query (the
\* greeting is answered with the fixed text); execute_query is called with
\* what generate_sql returned, which is not None; format_response is called
\* only when execute_query returned no error and at least one row.
C12_StepsInOrder ==
    LET greeting == hm_pc # "idle" /\ is_greeting(user_message) IN
    /\ \E n \in 0..Len(StepOrder) : hm_steps = SubSeq(StepOrder, 1, n)
    /\ (hm_pc = "raised" \/ (hm_pc = "done" /\ ~rl_result) \/ greeting) =>
          /\ hm_steps = <<"check_rate_limit">>
          /\ hm_calls = 1 => gs_calls = 0 /\ calls = 0
    /\ (hm_pc = "done" /\ rl_result /\ greeting) =>
          sent # <<>> /\ sent[Len(sent)] = GreetingReply
    /\ Called("execute_query") =>
          /\ gs_pc = "returned" /\ gs_result \notin {None, <<>>}
          /\ op = "execute_query" /\ query = gs_result
    /\ Called("format_response") =>
          /\ op_pc = "returned" /\ result.kind = "return"
          /\ result.error = None /\ result.value # <<>>

\* a request that went through all four steps and was answered
C12_Witness ==
    /\ hm_pc = "done" /\ hm_steps = StepOrder /\ sent # <<>>
    /\ ~is_greeting(user_message)

\* the renderer that produced what format_response gave: each renderer has
\* its own first line, and only _format_order_response raises
RendererOf(r) ==
    IF r.kind = "raise" THEN "order"
    ELSE IF StartsWith(r.value, Package \o Chars(" *Product Analysis: ")) THEN "product"
    ELSE IF StartsWith(r.value, Necktie \o Chars(" *Employee Analysis: ")) THEN "employee"
    ELSE IF StartsWith(r.value, Office \o Chars(" *Customer Analysis: "))
            \/ StartsWith(r.value, Office \o Chars(" *Supplier Analysis: ")) THEN "company"
    ELSE IF StartsWith(r.value, Truck \o Chars(" *Shipping Analysis: ")) THEN "shipper"
    ELSE IF StartsWith(r.value, Magnifier \o Chars(" *Query Results: ")) THEN "general"
    ELSE "none"

\* the rules in the order of their priority; the last one matches always
ShapeRules(columns) ==
    LET Has(c) == \E i \in 1..Len(columns) : columns[i] = c IN
    <<[renderer |-> "product", matches |-> Has("ProductName") /\ Has("UnitPrice")],
      [renderer |-> "order",
       matches |-> Has("OrderID") /\ (Has("CustomerID") \/ Has("ShipVia"))],
      [renderer |-> "employee", matches |-> Has("EmployeeID") /\ Has("LastName")],
      [renderer |-> "company", matches |-> Has("CompanyName") /\ Has("ContactName")],
      [renderer |-> "shipper", matches |-> Has("ShipperID") \/ Has("ShipVia")],
      [renderer |-> "general", matches |-> TRUE]>>
FirstMatch(rules) == rules[Min({i \in 1..Len(rules) : rules[i].matches})].renderer

\* C13: for a result set with at least one row, format_response uses the
\* renderer of the first rule that matches, in the order product, order,
\* employee, company, shipper, general.
C13_FirstMatchWins ==
    (fn = "format_response" /\ arg.rows # <<>>) =>
        RendererOf(ret) = FirstMatch(ShapeRules(arg.columns))

\* a result set that matches the company rule and the shipper rule
C13_Witness ==
    /\ fn = "format_response"
    /\ arg.columns = <<"ShipVia", "CompanyName", "ContactName", "ShipperID">>
    /\ RendererOf(ret) = "company"

\* C14: for a result set with at least one row, of whatever shape,
\* format_response returns a text; after the header block the text has one
\* "Record n:" line per row and one entry line per non-null field.
C14_EveryShapeRendered ==
    (fn = "format_response" /\ arg.rows # <<>>) =>
        /\ ret.kind = "return"
        /\ RendererOf(ret) # "none"
        /\ LET lines == SplitLines(ret.value)
               records == {i \in 1..Len(lines) :
                             StartsWith(lines[i], Pushpin \o Chars(" Record "))}
               entries == {i \in 1..Len(lines) :
                             StartsWith(lines[i], Bullet \o Chars(" "))}
               fields == {rc \in (1..Len(arg.rows)) \X (1..Len(arg.columns)) :
                             arg.rows[rc[1]][rc[2]] # Null}
           IN /\ Cardinality(records) = Len(arg.rows)
              /\ Cardinality(entries) = Cardinality(fields)

\* what holds at every moment of a generate_sql call
BoundedRetries ==
    /\ gs_pc \in {"idle", "try", "schema", "generate", "clean", "returned"}
    /\ gs_attempt < MAX_SQL_ATTEMPTS
    /\ model_calls <= gs_attempt + 1
    /\ gs_pc \in {"try", "schema", "generate"} => model_calls <= gs_attempt
    /\ gs_sleeps = [k \in 1..gs_attempt |-> 1 + (k - 1)]
    /\ (gs_pc = "returned" /\ gs_result = None) =>
          gs_attempt = MAX_SQL_ATTEMPTS - 1
    /\ (gs_pc = "returned" /\ gs_result # None) =>
          gs_result = attempt_result(response)

\* an attempt that passes the validation ends the call with its statement
\* (unless the process is killed at that moment)
StopsAtFirstPass ==
    (gs_pc = "clean" /\ attempt_result(response) # None) =>
        \/ gs_pc' = "returned" /\ gs_result' = attempt_result(response)
              /\ model_calls' = model_calls /\ gs_sleeps' = gs_sleeps
        \/ gs_pc' = "idle"

\* C15: a call of generate_sql ends by returning (it raises nothing), calls
\* the model at most MAX_SQL_ATTEMPTS times, returns at the first attempt that
\* passes the validation, sleeps 1 + attempt seconds (1, then 2) after a
\* failed attempt that is not the last, and returns None with no sleep after
\* the third failed attempt, whichever step of the attempt failed.
C15_TerminatesWithinThreeAttempts ==
    /\ []BoundedRetries
    /\ [][StopsAtFirstPass]_vars
    /\ (gs_pc \notin {"idle", "returned"}) ~> (gs_pc \in {"idle", "returned"})

\* three attempts have failed, one at the schema read, one at the model, one
\* at the validation; None is returned after sleeps of 1 and 2 seconds
C15_Witness ==
    /\ gs_pc = "returned" /\ gs_result = None /\ gs_sleeps = <<1, 2>>
    /\ model_calls = 2 /\ response # <<>>

\* within one call, no connection attempt follows one that succeeded
NoAttemptAfterSuccess ==
    (conns # <<>> /\ conns' # <<>>) => connect_calls' = connect_calls

\* three attempts have failed and none succeeded: ConnectionError is raised
\* and nothing was yielded
ExhaustedRaises ==
    (connect_calls = MAX_SQL_ATTEMPTS /\ conns = <<>>) =>
        /\ gc_pc \in {"loop", "ended"} /\ yields = 0
        /\ op_pc = "except" => exc = "ConnectionError"

\* C16: one acquisition through get_connection makes at most
\* MAX_SQL_ATTEMPTS connection attempts, makes none after one that succeeded,
\* and after three failed attempts raises ConnectionError without yielding.
C16_StopsAtFirstSuccess ==
    /\ [](connect_calls <= MAX_SQL_ATTEMPTS)
    /\ [][NoAttemptAfterSuccess]_vars
    /\ []ExhaustedRaises

\* C17: the sleeps of get_connection are 1 + k seconds after the failed
\* attempt with index k that is not the last (1, then 2), as in
\* generate_sql, and there is none after the last failed attempt.
C17_LinearBackoffFromOne ==
    /\ Len(sleeps) <= MAX_SQL_ATTEMPTS - 1
    /\ \A k \in 1..Len(sleeps) : sleeps[k] = 1 + (k - 1)

\* the text uses LIMIT and no TOP
LimitWithoutTop(text) ==
    Contains(Lower(text), Chars("limit")) /\ ~Contains(Lower(text), Chars("top"))

\* C18: an attempt whose model output uses LIMIT and no TOP fails, and
\* generate_sql returns no statement made from such an output that still
\* contains LIMIT.
C18_LimitRejected ==
    (gs_pc \in {"clean", "returned"} /\ response # <<>>
        /\ LimitWithoutTop(response)) =>
        /\ attempt_result(response) = None
        /\ (gs_pc = "returned" /\ gs_result # None) =>
              ~Contains(Lower(gs_result), Chars("limit"))

\* the number of places where w occurs in s
Occurrences(s, w) == Cardinality({i \in 1..Len(s) : MatchAt(s, i, w)})

\* C19: the statement generate_sql returns has at most one row-limiting
\* clause more than the model's output had, and a clause that was added
\* stands right after the leading select; a nested select gets none.
C19_ClauseAddedOnce ==
    (gs_pc = "returned" /\ gs_result # None) =>
        LET clause == Chars("top ") \o Str(MAX_RESULTS)
            added == Occurrences(Lower(gs_result), clause)
                        - Occurrences(Lower(response), clause)
        IN /\ added <= 1
           /\ added = 1 =>
                StartsWith(Lower(gs_result), Chars("select ") \o clause \o Chars(" "))

\* C20: when a call of check_rate_limit for a caller has ended, the window
\* stored for the caller holds only times t with now - t < 60 and at most
\* MAX_REQUESTS_PER_MINUTE of them; after the first call of a caller the
\* window holds the time of that call only.
C20_WindowInvariant ==
    rl_pc \in {"returned", "raised"} =>
        /\ rl_user \in DOMAIN user_requests
        /\ LET window == user_requests[rl_user] IN
            /\ Len(window) <= MAX_REQUESTS_PER_MINUTE
            /\ \A i \in 1..Len(window) : now - window[i] < 60
            /\ Len(rl_allowed[rl_user]) + Len(rl_denied[rl_user]) = 1 =>
                  window = <<now>> /\ rl_result

\* a call that found a full window of requests 60 seconds old, dropped them
\* and was allowed
C20_Witness ==
    /\ rl_pc = "returned" /\ rl_result
    /\ user_requests[rl_user] = <<now>>
    /\ Len(rl_allowed[rl_user]) = MAX_REQUESTS_PER_MINUTE + 1

\* the entries of a window that are less than 60 seconds old at time t_now
StillRecent(window, t_now) ==
    LET Keep[i \in 0..Len(window)] ==
            IF i = 0 THEN <<>>
            ELSE IF t_now - window[i] < 60 THEN Append(Keep[i - 1], window[i])
            ELSE Keep[i - 1]
    IN Keep[Len(window)]

\* the windows of the callers other than u are the same before and after
OthersUnchanged(u) ==
    \A x \in Users \ {u} :
        /\ (x \in DOMAIN user_requests') = (x \in DOMAIN user_requests)
        /\ RequestsOf(x)' = RequestsOf(x)

\* C21: a denied call of check_rate_limit leaves the caller's window as it
\* was but for the entries 60 seconds old or older, which are removed; an
\* allowed call leaves that window with the time of the call appended; both
\* leave the windows of the other callers unchanged, and no other step of
\* the call changes a window.
C21_FrameEffect ==
    [][/\ (rl_pc = "lock" /\ rl_pc' = "reply") =>
            /\ RequestsOf(rl_user)' = StillRecent(RequestsOf(rl_user), now)
            /\ OthersUnchanged(rl_user)
            /\ rl_allowed' = rl_allowed
       /\ (rl_pc = "lock" /\ rl_pc' = "returned") =>
            /\ rl_result'
            /\ RequestsOf(rl_user)' =
                    Append(StillRecent(RequestsOf(rl_user), now), now)
            /\ OthersUnchanged(rl_user)
       /\ rl_pc # "lock" => user_requests' = user_requests]_vars

\* a call of a caller was denied after ten allowed calls that each appended
\* their time, while the other caller has a window of its own
C21_Witness ==
    /\ rl_pc = "returned" /\ ~rl_result
    /\ rl_denied[rl_user] # <<>>
    /\ user_requests[rl_user] = rl_allowed[rl_user]
    /\ Len(user_requests[rl_user]) = MAX_REQUESTS_PER_MINUTE
    /\ \E x \in Users \ {rl_user} :
            x \in DOMAIN user_requests /\ user_requests[x] # <<>>

\* C22: a request that runs get_schema_info(force_refresh=False) while
\* another call of get_schema_info is under way gets a complete schema
\* description from the snapshot; it never fails on a snapshot that is being
\* rewritten.
C22_ReaderSeesWholeSnapshot ==
    rd_result # NoResult =>
        /\ rd_result.kind = "return"
        /\ rd_result.value \in SchemaInfos

\* the number of allowed calls of caller u with a time in [t, t + 60)
AllowedWithin(u, t) ==
    Cardinality({i \in 1..Len(rl_allowed[u]) :
                    t <= rl_allowed[u][i] /\ rl_allowed[u][i] < t + 60})

\* C23: whatever the order in which concurrent calls of check_rate_limit get
\* the lock after they have read their time, no 60 seconds hold the times of
\* more than MAX_REQUESTS_PER_MINUTE allowed calls of one caller.
C23_CapUnderConcurrency ==
    \A u \in Users : \A i \in 1..Len(rl_allowed[u]) :
        AllowedWithin(u, rl_allowed[u][i]) <= MAX_REQUESTS_PER_MINUTE

\* C24: with handlers that share one event loop, a call of check_rate_limit
\* that has begun returns or raises in the end, a lock that is held is
\* released in the end, and a call that stands at the lock gets past it.
C24_EveryCallReturns ==
    /\ (rl_pc \in {"lock", "reply"}) ~> (rl_pc \in {"returned", "raised"})
    /\ lock ~> ~lock
    /\ (waiting # <<>>) ~> (waiting = <<>>)

\* once a connection has been yielded, the acquisition connects and sleeps
\* no more
NoRetryAfterYield ==
    (yields >= 1 /\ yields' >= 1) =>
        /\ connect_calls' = connect_calls
        /\ sleeps' = sleeps

\* C25: one acquisition through get_connection yields at most once; after
\* the yield no connection attempt and no backoff sleep follows, and the
\* exception that leaves the with statement is the driver error that was
\* raised in the body or by commit.
C25_YieldedAtMostOnce ==
    /\ [](yields <= 1)
    /\ [][NoRetryAfterYield]_vars
    /\ []((op_pc = "except" /\ yields >= 1) => exc = "pyodbc.Error")

\* the statement begins with the clause "select top 50", 50 not followed by
\* a further digit
CapsAtMaxResults(sql) ==
    LET head == Chars("select top ") \o Str(MAX_RESULTS) IN
    /\ StartsWith(Lower(sql), head)
    /\ Len(sql) > Len(head) => sql[Len(head) + 1] \notin DigitChars

\* C2: what generate_sql returns is None, or a text that starts with select,
\* passes _is_query_safe and caps the rows at MAX_RESULTS, whatever the
\* model's outputs were (also outputs with their own TOP n).
C2_ReturnsCappedSelect ==
    (gs_pc = "returned" /\ gs_result # None) =>
        /\ StartsWith(Lower(gs_result), Chars("select"))
        /\ _is_query_safe(gs_result)
        /\ CapsAtMaxResults(gs_result)

\* the number of calls of caller u allowed within the 60 seconds before
\* t_now; own tells that the call at t_now is itself in the history
AllowedBefore(u, t_now, own) ==
    LET prior == IF own THEN SubSeq(rl_allowed[u], 1, Len(rl_allowed[u]) - 1)
                 ELSE rl_allowed[u]
    IN Cardinality({i \in 1..Len(prior) : t_now - prior[i] < 60})

\* C4: a call of check_rate_limit by a caller is denied when 10 calls of that
\* caller were allowed within the 60 seconds before it, and is allowed when
\* fewer were (60 seconds or more after an allowed call, that call no longer
\* counts).
C4_RollingWindowCap ==
    rl_pc \in {"returned", "raised"} =>
        LET allowed == rl_pc = "returned" /\ rl_result
            n == AllowedBefore(rl_user, now, allowed)
        IN /\ n >= 10 => ~allowed
           /\ n < 10 => allowed

\* the eleventh call within the window was denied, and a call 60 seconds
\* after the first was allowed
C4_Witness ==
    /\ rl_pc = "returned" /\ rl_result
    /\ Len(rl_allowed[rl_user]) = 11 /\ rl_denied[rl_user] # <<>>
    /\ now - rl_allowed[rl_user][1] = 60
    /\ rl_denied[rl_user][1] - rl_allowed[rl_user][1] < 60

SensitiveName(k) == \E word \in SensitiveWords : Contains(Lower(Chars(k)), Chars(word))

\* C9: in the text format_response returns, the entry of every field whose
\* name contains password, secret, address, phone or fax shows [REDACTED],
\* whatever the value of the field is.
C9_SensitiveFieldsRedacted ==
    (fn = "format_response" /\ ret.kind = "return") =>
        LET lines == SplitLines(ret.value) IN
        \A i \in 1..Len(lines) : \A c \in 1..Len(arg.columns) :
            LET entry == Bullet \o Chars(" " \o arg.columns[c] \o ": ") IN
            (SensitiveName(arg.columns[c]) /\ StartsWith(lines[i], entry))
                => lines[i] = entry \o Chars("[REDACTED]")

ExceptionNames ==
    {"pyodbc.Error", "ValueError", "ConnectionError", "RuntimeError", "JSONDecodeError"}

\* C8: no message sent to the chat contains a line of a driver error or the
\* name of an exception.
C8_NoDriverTextSent ==
    \A i \in 1..Len(sent) :
        /\ \A e \in DriverErrors : \A line \in 1..Len(SplitLines(Chars(e))) :
              ~Contains(sent[i], SplitLines(Chars(e))[line])
        /\ \A e \in ExceptionNames : ~Contains(sent[i], Chars(e))

====
